---- MODULE Spec2Model ----
(***************************************************************************)
(* Model of the F1 portal's data layer (src/f1capstone/f1): the HTTP       *)
(* client JolpiClient (services.py), the paginated loaders and the results *)
(* cache (views.py), the mechanical-DNF classifier and the season          *)
(* statistics of driver_detail / constructor_detail (views.py).            *)
(* With it, the handlers of the other applications that change stored     *)
(* rows: bids and closing (commerce/auctions), post edits and likes        *)
(* (project4/network), new and edited entries (wiki/encyclopedia).         *)
(*                                                                         *)
(* The specifications share the variables:                                 *)
(*   Spec        the loaders and the results cache, one handler at a time  *)
(*   SpecClient  JolpiClient.get_url, one loop iteration per step          *)
(*   SpecDnf     _is_mechanical_dnf_from_status over sample inputs         *)
(*   SpecStats   driver_detail / constructor_detail over small seasons     *)
(*   SpecPaging  the pagination loop against stale responses               *)
(*   SpecConc    two request handlers loading at the same time             *)
(*   SpecHealth  the api_health context processor and its probe            *)
(*   SpecPages   the season page views of one request each                 *)
(*   SpecOwn     the cache, the loader and the readers of its payload      *)
(*   SpecTally   the detail views over result rows of every kind           *)
(*   SpecAuction      place_bid and auction_close, one request at a time   *)
(*   SpecAuctionRace  the same handlers, two requests interleaved          *)
(*   SpecNetwork      edit_post_api, one request at a time                 *)
(*   SpecLikes        toggle_like_api, one request at a time               *)
(*   SpecWiki         new_page and edit_page, one request at a time        *)
(***************************************************************************)
EXTENDS Integers, Sequences, FiniteSets, TLC

VARIABLES
    \* ---- JolpiClient.get_url (SpecClient) ----
    client,     \* the client object and the position of the running get_url call
    \* ---- loaders and cache (Spec, SpecStats) ----
    cache,      \* _RESULTS_CACHE: key -> entry
    now,        \* datetime.utcnow(), in minutes
    upTotal,    \* the upstream's collection size (rows), what it reports as total
    ld,         \* the loader call of the running request handler
    calls,      \* loader calls made so far (bounded)
    \* ---- classifier (SpecDnf) ----
    dnf,        \* input and result of _is_mechanical_dnf_from_status
    \* ---- statistics (SpecStats) ----
    season,     \* the upstream's season: calendar and result rows
    view,       \* the running page view: driver_detail or constructor_detail
    \* ---- API health (SpecHealth) ----
    health,     \* the health entry of Django's cache, the clock in seconds, the last signal
    \* ---- the other applications (SpecAuction .. SpecWiki) ----
    auction,    \* commerce/auctions: a listing, its bids, the requests in progress
    network,    \* project4/network: posts, likes, the last response
    wiki        \* wiki/encyclopedia: the entries on disk, the last response

f1vars == <<client, cache, now, upTotal, ld, calls, dnf, season, view, health>>
vars == <<f1vars, auction, network, wiki>>

Min(a, b) == IF a <= b THEN a ELSE b
Max(a, b) == IF a >= b THEN a ELSE b

(***************************************************************************)
(* Payloads.  A payload is the MRData envelope: total, limit, offset (as   *)
(* the upstream reports them; Absent when the key is missing) and one      *)
(* table, a list of records.  A record of a RaceTable is a race with its   *)
(* result rows; a row is named by its index in the upstream's collection.  *)
(***************************************************************************)
Absent == -1

\* {"MRData": {"total": 0}}
Sentinel == [total |-> 0, limit |-> Absent, offset |-> Absent,
             kind |-> "none", table |-> <<>>]

\* {"MRData": {}}
EmptyMRData == [total |-> Absent, limit |-> Absent, offset |-> Absent,
                kind |-> "none", table |-> <<>>]

(***************************************************************************)
(* The upstream API.  Every collection is the row list of the season, cut  *)
(* to its first upTotal rows; a request (limit, offset) is answered with   *)
(* the rows offset+1 .. offset+limit, the limit capped by the server.      *)
(***************************************************************************)
MaxTotal == 3          \* rows in the upstream's collection, at most
ServerMaxLimit == 2    \* the largest page the upstream serves
RowsPerRace == 2       \* result rows of one race in the default season

YearResources == {"results", "sprint", "drivers", "races",
                  "driverstandings", "constructorstandings"}
CollectionResources == {"results", "drivers", "constructors", "driverstandings"}

TableKind(resource) ==
    CASE resource \in {"results", "sprint", "races"} -> "RaceTable"
      [] resource = "drivers" -> "DriverTable"
      [] resource = "constructors" -> "ConstructorTable"
      [] OTHER -> "StandingsTable"

\* the round of the i-th result row of the season
RoundOf(i) == season.rows[i].round

Interval(a, b) == [i \in 1..(b - a + 1) |-> a + i - 1]

\* "Races": one record per round met in rows lo..hi, each with its rows of that range
RaceRecords(lo, hi) ==
    IF lo > hi THEN <<>>
    ELSE LET rounds == {RoundOf(i) : i \in lo..hi}
         IN  [k \in 1..Cardinality(rounds) |->
                LET rnd == CHOOSE r \in rounds :
                               Cardinality({q \in rounds : q < r}) = k - 1
                    mine == {i \in lo..hi : RoundOf(i) = rnd}
                    a == CHOOSE i \in mine : \A j \in mine : i <= j
                IN  [round |-> rnd, rows |-> Interval(a, a + Cardinality(mine) - 1)]]

\* "Drivers", "Constructors", the calendar's "Races": one record per item
FlatRecords(lo, hi) ==
    IF lo > hi THEN <<>>
    ELSE [k \in 1..(hi - lo + 1) |-> [round |-> lo + k - 1, rows |-> <<lo + k - 1>>]]

\* "StandingsLists": one list holding the standing rows
StandingsRecords(lo, hi) ==
    IF lo > hi THEN <<>> ELSE <<[round |-> 0, rows |-> Interval(lo, hi)]>>

UpstreamPage(resource, total, limitAsked, off) ==
    LET lim == Min(limitAsked, ServerMaxLimit)
        lo == off + 1
        hi == Min(off + lim, total)
    IN  [total |-> total, limit |-> lim, offset |-> off,
         kind |-> TableKind(resource),
         table |-> CASE resource \in {"results", "sprint"} -> RaceRecords(lo, hi)
                     [] TableKind(resource) = "StandingsTable" -> StandingsRecords(lo, hi)
                     [] OTHER -> FlatRecords(lo, hi)]

RECURSIVE SumRows(_)
SumRows(table) ==
    IF table = <<>> THEN 0 ELSE Len(Head(table).rows) + SumRows(Tail(table))

\* the number of items (rows) a payload holds
ItemCount(payload) == SumRows(payload.table)

(***************************************************************************)
(* JolpiClient (services.py).  An outcome is what one self._client.get     *)
(* does: it raises one of httpx's errors, or answers with a status and a   *)
(* body that parses as JSON or does not.                                   *)
(***************************************************************************)
MaxRetries == 2        \* the retries argument given to JolpiClient, at most

DefaultRetryStatuses == {502, 503, 504}
RetryStatusSets == {DefaultRetryStatuses, {}, {503}, {500, 503}}
Statuses == {200, 404, 500, 502, 503, 504}

Is2xx(status) == status >= 200 /\ status < 300

ErrorKinds == {"timeout", "connect", "read", "request", "unexpected"}

Response(status, valid, body) ==
    [kind |-> "response", status |-> status, valid |-> valid, body |-> body]
Failure(kind) ==
    [kind |-> kind, status |-> 0, valid |-> FALSE, body |-> Sentinel]

\* what the upstream can answer to a request that would rightly get `body`
Outcomes(body) ==
    {Failure(k) : k \in ErrorKinds}
    \cup {Response(200, v, body) : v \in BOOLEAN}
    \cup {Response(s, TRUE, Sentinel) : s \in Statuses \ {200}}

Continue == [act |-> "continue", value |-> Sentinel]
Return(value) == [act |-> "return", value |-> value]
Raise == [act |-> "raise", value |-> Sentinel]

\* a get_url that lets transport errors reach its caller
get_url_iter_raising(attempt, retries, retry_statuses, o) ==
    IF o.kind = "response"
    THEN IF o.status \in retry_statuses /\ attempt < retries THEN Continue
         ELSE IF ~Is2xx(o.status) THEN Return(Sentinel)
         ELSE IF o.valid THEN Return(o.body) ELSE Return(Sentinel)
    ELSE Raise

\* a get_url that retries after every error status, retryable or not
get_url_iter_retry_errors(attempt, retries, retry_statuses, o) ==
    IF o.kind = "response"
    THEN IF ~Is2xx(o.status) /\ attempt < retries THEN Continue
         ELSE IF ~Is2xx(o.status) THEN Return(Sentinel)
         ELSE IF o.valid THEN Return(o.body) ELSE Return(Sentinel)
    ELSE Return(Sentinel)

\* one iteration of get_url's while loop, given the outcome of its request
get_url_iter(attempt, retries, retry_statuses, o) ==
    IF o.kind = "response"
    THEN IF o.status \in retry_statuses /\ attempt < retries
         THEN Continue                                   \* lines 98-100
         ELSE IF ~Is2xx(o.status)                        \* raise_for_status()
              THEN IF o.status \in retry_statuses /\ attempt < retries
                   THEN Continue                         \* lines 108-110
                   ELSE Return(Sentinel)                 \* line 112
              ELSE IF o.valid
                   THEN Return(o.body)                   \* line 102
                   ELSE Return(Sentinel)                 \* json() raises: line 118
    ELSE Return(Sentinel)                                \* lines 103-105, 113-118


NoOutcome == Failure("none")

ClientIdle ==
    [pc |-> "idle", retriesArg |-> 0, retries |-> 0,
     retry_statuses |-> DefaultRetryStatuses,
     attempt |-> 0, requests |-> 0, last |-> NoOutcome, result |-> Sentinel]

\* the JSON bodies the upstream answers the client's requests with
ClientBodies == {UpstreamPage("drivers", t, 1, 0) : t \in 0..1}

\* JolpiClient(retries=n, retry_statuses=sts)
JolpiClientInit(n, sts) ==
    /\ client.pc \in {"idle", "done", "raised"}
    /\ client' = [ClientIdle EXCEPT !.pc = "ready", !.retriesArg = n,
                                    !.retries = Max(0, n), !.retry_statuses = sts]
    /\ UNCHANGED <<cache, now, upTotal, ld, calls, dnf, season, view, health, auction, network, wiki>>

\* client.get_url(url): line 93
GetUrlCall ==
    /\ client.pc \in {"ready", "done"}
    /\ client' = [client EXCEPT !.pc = "loop", !.attempt = 0, !.requests = 0,
                                !.last = NoOutcome, !.result = Sentinel]
    /\ UNCHANGED <<cache, now, upTotal, ld, calls, dnf, season, view, health, auction, network, wiki>>

\* one pass of the while loop of get_url: a request and what follows from its outcome
GetUrlAttempt(o) ==
    /\ client.pc = "loop"
    /\ IF client.attempt <= client.retries
       THEN LET it == get_url_iter(client.attempt, client.retries,
                                   client.retry_statuses, o)
            IN  client' = [client EXCEPT
                    !.requests = @ + 1,
                    !.last = o,
                    !.attempt = IF it.act = "continue" THEN @ + 1 ELSE @,
                    !.pc = CASE it.act = "continue" -> "loop"
                             [] it.act = "return" -> "done"
                             [] OTHER -> "raised",
                    !.result = it.value]
       ELSE client' = [client EXCEPT !.pc = "done", !.result = Sentinel]  \* line 120
    /\ UNCHANGED <<cache, now, upTotal, ld, calls, dnf, season, view, health, auction, network, wiki>>

ClientNext ==
    \/ \E n \in -1..MaxRetries, sts \in RetryStatusSets : JolpiClientInit(n, sts)
    \/ GetUrlCall
    \/ \E b \in ClientBodies : \E o \in Outcomes(b) : GetUrlAttempt(o)

(***************************************************************************)
(* The results cache and the paginated loaders (views.py).                 *)
(***************************************************************************)
_CACHE_TTL == 5        \* timedelta(minutes=5)
PageAttempts == 3      \* for attempt in range(3)
MaxClock == _CACHE_TTL + 1      \* the clock stops one minute past the TTL
MaxPerPage == ServerMaxLimit + 1 \* the largest per_page argument
MaxCalls == 2          \* loader calls in one run

Handlers == {1, 2}     \* request handlers; Spec runs handler 1 alone
\* the page sizes asked for: the smallest, and one above the server's cap
PerPages == {1, MaxPerPage}

\* cache_key = f"{resource}:{year}:{per_page}", for the one season year of the model
Keys == YearResources \X PerPages
cache_key(resource, per_page) == <<resource, per_page>>

NoEntry == [present |-> FALSE, ts |-> 0, data |-> EmptyMRData]

\* a lookup that treats an entry of exactly TTL age as expired
_cache_get_strict(key, t) ==
    LET rec == cache[key]
    IN  IF ~rec.present THEN [hit |-> FALSE, data |-> EmptyMRData]
        ELSE IF t - rec.ts >= _CACHE_TTL THEN [hit |-> FALSE, data |-> EmptyMRData]
        ELSE [hit |-> TRUE, data |-> rec.data]

\* a lookup that never expires an entry
_cache_get_forever(key, t) ==
    LET rec == cache[key]
    IN  IF ~rec.present THEN [hit |-> FALSE, data |-> EmptyMRData]
        ELSE [hit |-> TRUE, data |-> rec.data]

\* _cache_get at time t: hit is "the returned value is not None"
_cache_get(key, t) ==
    LET rec == cache[key]
    IN  IF ~rec.present THEN [hit |-> FALSE, data |-> EmptyMRData]
        ELSE IF t - rec.ts > _CACHE_TTL THEN [hit |-> FALSE, data |-> EmptyMRData]
        ELSE [hit |-> TRUE, data |-> rec.data]

\* a store that keeps the time of the entry it finds
_cache_set_keeping_ts(key, data) ==
    [cache EXCEPT ![key] = [present |-> TRUE,
                            ts |-> IF @.present THEN @.ts ELSE now, data |-> data]]

\* a store that adds the new payload's list to the list of the entry it finds
_cache_set_appending(key, data) ==
    [cache EXCEPT ![key] = [present |-> TRUE, ts |-> now,
                            data |-> IF @.present
                                     THEN [@.data EXCEPT !.table = @ \o data.table]
                                     ELSE data]]

_cache_set(key, data) ==
    [cache EXCEPT ![key] = [present |-> TRUE, ts |-> now, data |-> data]]

\* int(mr.get("total") or 0), int(mr.get("limit") or per_page), int(mr.get("offset") or offset)
PageTotal(page) == IF page.total = Absent THEN 0 ELSE page.total
PageLimit(page, per_page) ==
    IF page.limit = Absent THEN per_page ELSE page.limit
PageOffset(page, dflt) == IF page.offset = Absent THEN dflt ELSE page.offset

Append2(payload, page) == [payload EXCEPT !.table = @ \o page.table]

\* a merge that appends for every resource
MergeYearPageAppending(resource, has, merged, page) ==
    IF ~has THEN page ELSE Append2(merged, page)

\* a merge in which every later page takes the place of the merged payload
MergeYearPageReplacing(resource, has, merged, page) == page

\* lines 65-79: merged after the page is taken in (has: merged is not None)
MergeYearPage(resource, has, merged, page) ==
    IF ~has THEN page
    ELSE IF resource \in {"results", "sprint", "drivers", "races"}
         THEN Append2(merged, page)
         ELSE page

\* lines 706-717 of _load_collection: the branch is chosen by the page's table
MergeCollectionPage(has, merged, page) ==
    IF ~has THEN page
    ELSE IF page.kind \in {"RaceTable", "DriverTable", "ConstructorTable"}
         THEN Append2(merged, page)
         ELSE page

\* the pagination loop's break test
LoopEnds(offset, total) == offset >= total \/ total = 0

\* the page requests of a load are counted up to MaxRequests, more than any load needs
\* whose requests advance through the collection
MaxRequests == MaxTotal + 3
Sent(n) == Min(n + 1, MaxRequests)

LoaderIdle ==
    [pc |-> "idle", fn |-> "none", resource |-> "none", per_page |-> 0,
     has |-> FALSE, merged |-> EmptyMRData, offset |-> 0, attempt |-> 0,
     reqs |-> 0, failed |-> FALSE, lastFailed |-> FALSE, found |-> "absent",
     total |-> 0, ret |-> EmptyMRData]

\* what a call finds under its key, by the entry's age (kept for the properties)
Found(key) ==
    IF ~cache[key].present THEN "absent"
    ELSE IF now - cache[key].ts <= _CACHE_TTL THEN "fresh" ELSE "expired"

Free(h) == ld[h].pc \in {"idle", "done", "raised"}

\* _load_year_collection(resource, year, per_page): lines 38-46
LoadYearCall(h, resource, per_page) ==
    /\ Free(h)
    /\ calls < MaxCalls
    /\ LET key == cache_key(resource, per_page)
           cached == _cache_get(key, now)
           start == [LoaderIdle EXCEPT !.fn = "_load_year_collection",
                                       !.resource = resource, !.per_page = per_page,
                                       !.found = Found(key)]
       IN  ld' = [ld EXCEPT ![h] =
                    IF cached.hit
                    THEN [start EXCEPT !.pc = "done", !.ret = cached.data]
                    ELSE [start EXCEPT !.pc = "loading"]]
    /\ calls' = calls + 1
    /\ UNCHANGED <<client, cache, now, upTotal, dnf, season, view, health, auction, network, wiki>>

\* one page of _load_year_collection: lines 48-83, and lines 85-88 after the last page
LoadYearPage(h, o) ==
    /\ ld[h].pc = "loading"
    /\ ld[h].fn = "_load_year_collection"
    /\ LET l == ld[h]
           it == get_url_iter(0, 0, DefaultRetryStatuses, o)
       IN  IF it.act = "raise"
           THEN \* except Exception: sleep and try again, raise after the third failure
                /\ ld' = [ld EXCEPT ![h] =
                     IF l.attempt + 1 < PageAttempts
                     THEN [l EXCEPT !.attempt = @ + 1, !.reqs = Sent(@),
                                    !.failed = TRUE, !.lastFailed = TRUE]
                     ELSE [l EXCEPT !.pc = "raised", !.reqs = Sent(@),
                                    !.failed = TRUE, !.lastFailed = TRUE]]
                /\ UNCHANGED cache
           ELSE LET page == it.value
                    total == PageTotal(page)
                    limit == PageLimit(page, l.per_page)
                    off == PageOffset(page, l.offset)
                    merged == MergeYearPage(l.resource, l.has, l.merged, page)
                    offset == off + limit
                    next == [l EXCEPT !.has = TRUE, !.merged = merged,
                                      !.offset = offset, !.attempt = 0,
                                      !.reqs = Sent(@), !.total = total,
                                      !.failed = @ \/ page = Sentinel,
                                      !.lastFailed = (page = Sentinel)]
                IN  IF LoopEnds(offset, total)
                    THEN /\ cache' = _cache_set(cache_key(l.resource, l.per_page), merged)
                         /\ ld' = [ld EXCEPT ![h] =
                                     [next EXCEPT !.pc = "done", !.ret = merged]]
                    ELSE /\ ld' = [ld EXCEPT ![h] = next]
                         /\ UNCHANGED cache
    /\ UNCHANGED <<client, now, upTotal, calls, dnf, season, view, health, auction, network, wiki>>

\* _load_collection(base_url, per_page): lines 698-700
LoadCollectionCall(h, resource, per_page) ==
    /\ Free(h)
    /\ calls < MaxCalls
    /\ ld' = [ld EXCEPT ![h] =
                [LoaderIdle EXCEPT !.pc = "loading", !.fn = "_load_collection",
                                   !.resource = resource, !.per_page = per_page]]
    /\ calls' = calls + 1
    /\ UNCHANGED <<client, cache, now, upTotal, dnf, season, view, health, auction, network, wiki>>

\* one page of _load_collection: lines 701-725, and line 727 after the last page
LoadCollectionPage(h, o) ==
    /\ ld[h].pc = "loading"
    /\ ld[h].fn = "_load_collection"
    /\ LET l == ld[h]
           it == get_url_iter(0, 0, DefaultRetryStatuses, o)
       IN  IF it.act = "raise"
           THEN ld' = [ld EXCEPT ![h] =
                         [l EXCEPT !.pc = "raised", !.reqs = Sent(@),
                                   !.failed = TRUE, !.lastFailed = TRUE]]
           ELSE LET page == it.value
                    merged == MergeCollectionPage(l.has, l.merged, page)
                    total == PageTotal(page)
                    limit == PageLimit(page, l.per_page)
                    off == PageOffset(page, 0)
                    offset == off + limit
                    next == [l EXCEPT !.has = TRUE, !.merged = merged,
                                      !.offset = offset, !.reqs = Sent(@),
                                      !.total = total,
                                      !.failed = @ \/ page = Sentinel,
                                      !.lastFailed = (page = Sentinel)]
                IN  ld' = [ld EXCEPT ![h] =
                             IF LoopEnds(offset, total)
                             THEN [next EXCEPT !.pc = "done", !.ret = merged]
                             ELSE next]
    /\ UNCHANGED <<client, cache, now, upTotal, calls, dnf, season, view, health, auction, network, wiki>>

\* time passes; the clock is read from the first loader call on
Tick ==
    /\ now < MaxClock
    /\ calls > 0
    /\ now' = now + 1
    /\ UNCHANGED <<client, cache, upTotal, ld, calls, dnf, season, view, health, auction, network, wiki>>

\* the upstream publishes one more row, between two loads
UpstreamChange ==
    /\ \A h \in Handlers : Free(h)
    /\ upTotal < MaxTotal
    /\ upTotal' = upTotal + 1
    /\ UNCHANGED <<client, cache, now, ld, calls, dnf, season, view, health, auction, network, wiki>>

\* the request the loader of handler h sends next, and what may come back
NextBody(h) ==
    UpstreamPage(ld[h].resource, upTotal, ld[h].per_page, ld[h].offset)

\* the resources a run may ask for: one run stays with the loader and the resource it
\* began with
Asked(fn, S) ==
    IF calls = 0 THEN S
    ELSE S \cap {ld[h].resource : h \in {g \in Handlers : ld[g].fn = fn}}

LoaderNext(h) ==
    \/ \E r \in Asked("_load_year_collection", YearResources), pp \in PerPages :
          LoadYearCall(h, r, pp)
    \/ \E o \in Outcomes(NextBody(h)) : LoadYearPage(h, o)
    \/ \E r \in Asked("_load_collection", CollectionResources), pp \in PerPages :
          LoadCollectionCall(h, r, pp)
    \/ \E o \in Outcomes(NextBody(h)) : LoadCollectionPage(h, o)

(***************************************************************************)
(* The mechanical-DNF classifier (views.py, lines 464-501).  A text is a   *)
(* sequence of one-letter strings; None is NoneText.                       *)
(***************************************************************************)
UpperCase == <<"A", "B", "C", "D", "E", "F", "G", "H", "I", "J", "K", "L", "M", "N", "O", "P", "Q", "R", "S", "T", "U", "V", "W", "X", "Y", "Z">>
LowerCase == <<"a", "b", "c", "d", "e", "f", "g", "h", "i", "j", "k", "l", "m", "n", "o", "p", "q", "r", "s", "t", "u", "v", "w", "x", "y", "z">>
NoneText == <<"None">>

\* (text or "")
OrEmpty(text) == IF text = NoneText THEN <<>> ELSE text

RECURSIVE LStrip(_)
LStrip(s) == IF s # <<>> /\ Head(s) = " " THEN LStrip(Tail(s)) ELSE s
RECURSIVE RStrip(_)
RStrip(s) == IF s # <<>> /\ s[Len(s)] = " " THEN RStrip(SubSeq(s, 1, Len(s) - 1)) ELSE s
\* str.strip()
Strip(s) == RStrip(LStrip(s))

LowerChar(c) ==
    IF \E i \in 1..Len(UpperCase) : UpperCase[i] = c
    THEN LowerCase[CHOOSE i \in 1..Len(UpperCase) : UpperCase[i] = c]
    ELSE c
\* str.lower()
ToLower(s) == [i \in 1..Len(s) |-> LowerChar(s[i])]

\* term in s
Contains(s, term) ==
    \E i \in 0..(Len(s) - Len(term)) : SubSeq(s, i + 1, i + Len(term)) = term

_NON_MECH_TERMS == {
    <<"a", "c", "c", "i", "d", "e", "n", "t">>,    \* accident
    <<"c", "o", "l", "l", "i", "s", "i", "o", "n">>,    \* collision
    <<"s", "p", "i", "n">>,    \* spin
    <<"c", "r", "a", "s", "h">>,    \* crash
    <<"c", "o", "n", "t", "a", "c", "t">>,    \* contact
    <<"d", "i", "s", "q", "u", "a", "l", "i", "f", "i", "e", "d">>,    \* disqualified
    <<"e", "x", "c", "l", "u", "d", "e", "d">>,    \* excluded
    <<"b", "l", "a", "c", "k", " ", "f", "l", "a", "g">>,    \* black flag
    <<"i", "l", "l", "e", "g", "a", "l">>,    \* illegal
    <<"f", "i", "n", "i", "s", "h", "e", "d">>,    \* finished
    <<"l", "a", "p">>,    \* lap
    <<"l", "a", "p", "s">>,    \* laps
    <<"t", "i", "m", "e", " ", "p", "e", "n", "a", "l", "t", "y">>,    \* time penalty
    <<"d", "i", "d", " ", "n", "o", "t", " ", "q", "u", "a", "l", "i", "f", "y">>,    \* did not qualify
    <<"n", "o", "t", " ", "c", "l", "a", "s", "s", "i", "f", "i", "e", "d">>,    \* not classified
    <<"i", "n", "j", "u", "r", "y">>,    \* injury
    <<"i", "l", "l", "n", "e", "s", "s">>,    \* illness
    <<"w", "i", "t", "h", "d", "r", "e", "w">>    \* withdrew
}

\* a keyword list cut short
_MECH_TERMS_short == {
    <<"e", "n", "g", "i", "n", "e">>,    \* engine
    <<"g", "e", "a", "r", "b", "o", "x">>    \* gearbox
}

_MECH_TERMS == {
    <<"r", "e", "t", "i", "r", "e", "d">>,    \* retired
    <<"m", "e", "c", "h", "a", "n", "i", "c", "a", "l">>,    \* mechanical
    <<"e", "n", "g", "i", "n", "e">>,    \* engine
    <<"p", "o", "w", "e", "r", " ", "u", "n", "i", "t">>,    \* power unit
    <<"g", "e", "a", "r", "b", "o", "x">>,    \* gearbox
    <<"h", "y", "d", "r", "a", "u", "l">>,    \* hydraul
    <<"e", "l", "e", "c", "t", "r", "i", "c", "a", "l">>,    \* electrical
    <<"s", "u", "s", "p", "e", "n", "s", "i", "o", "n">>,    \* suspension
    <<"b", "r", "a", "k", "e">>,    \* brake
    <<"b", "r", "a", "k", "e", "s">>,    \* brakes
    <<"c", "l", "u", "t", "c", "h">>,    \* clutch
    <<"d", "r", "i", "v", "e", "s", "h", "a", "f", "t">>,    \* driveshaft
    <<"e", "x", "h", "a", "u", "s", "t">>,    \* exhaust
    <<"f", "u", "e", "l">>,    \* fuel
    <<"o", "i", "l">>,    \* oil
    <<"o", "v", "e", "r", "h", "e", "a", "t", "i", "n", "g">>,    \* overheating
    <<"s", "t", "e", "e", "r", "i", "n", "g">>,    \* steering
    <<"b", "a", "t", "t", "e", "r", "y">>,    \* battery
    <<"r", "a", "d", "i", "a", "t", "o", "r">>,    \* radiator
    <<"t", "u", "r", "b", "o">>,    \* turbo
    <<"e", "r", "s">>,    \* ers
    <<"i", "g", "n", "i", "t", "i", "o", "n">>,    \* ignition
    <<"w", "a", "t", "e", "r", " ", "p", "r", "e", "s", "s", "u", "r", "e">>,    \* water pressure
    <<"t", "h", "r", "o", "t", "t", "l", "e">>,    \* throttle
    <<"w", "h", "e", "e", "l">>,    \* wheel
    <<"p", "u", "n", "c", "t", "u", "r", "e">>,    \* puncture
    <<"t", "y", "r", "e">>,    \* tyre
    <<"c", "o", "o", "l", "i", "n", "g">>    \* cooling
}

\* the markers tested first
FinishMarkers == {
    <<"f", "i", "n", "i", "s", "h", "e", "d">>,    \* finished
    <<"l", "a", "p">>,    \* lap
    <<"d", "i", "s", "q", "u", "a", "l", "i", "f", "i", "e", "d">>,    \* disqualified
    <<"e", "x", "c", "l", "u", "d", "e", "d">>    \* excluded
}

\* a classifier that takes every retirement without a named cause for mechanical,
\* accidents included
_is_mechanical_dnf_ignoring_causes(status, position_text) ==
    LET s == ToLower(Strip(OrEmpty(status)))
        ptxt == ToLower(Strip(OrEmpty(position_text)))
    IN  IF \E m \in FinishMarkers : Contains(s, m) THEN FALSE
        ELSE IF ptxt = <<"r">> THEN TRUE
        ELSE \E term \in _MECH_TERMS : Contains(s, term)

_is_mechanical_dnf_from_status(status, position_text) ==
    LET s == ToLower(Strip(OrEmpty(status)))
        ptxt == ToLower(Strip(OrEmpty(position_text)))
    IN  IF \E m \in FinishMarkers : Contains(s, m) THEN FALSE          \* lines 490-491
        ELSE IF \E term \in _NON_MECH_TERMS : Contains(s, term) THEN FALSE  \* 493-494
        ELSE IF ptxt = <<"r">> THEN TRUE                               \* lines 496-497
        ELSE IF \E term \in _MECH_TERMS : Contains(s, term) THEN TRUE  \* lines 498-499
        ELSE FALSE                                                     \* line 501

\* status texts and position texts the classifier is applied to
S_Accident == <<"A", "c", "c", "i", "d", "e", "n", "t">>    \* 'Accident'
S_Retired == <<"R", "e", "t", "i", "r", "e", "d">>    \* 'Retired'
S_Finished == <<"F", "i", "n", "i", "s", "h", "e", "d">>    \* 'Finished'
S_Gearbox == <<"G", "e", "a", "r", "b", "o", "x">>    \* 'Gearbox'
S_Disqualified == <<"D", "i", "s", "q", "u", "a", "l", "i", "f", "i", "e", "d">>    \* 'Disqualified'
S_Illness == <<"I", "l", "l", "n", "e", "s", "s">>    \* 'Illness'
S_Mechanical == <<"M", "e", "c", "h", "a", "n", "i", "c", "a", "l">>    \* 'Mechanical'
S_PowerUnit == <<"P", "o", "w", "e", "r", " ", "U", "n", "i", "t">>    \* 'Power Unit'
S_Engine == <<"E", "n", "g", "i", "n", "e">>    \* 'Engine'
S_Damage == <<"D", "a", "m", "a", "g", "e">>    \* 'Damage'
P_R == <<"R">>    \* 'R'
P_r == <<"r">>    \* 'r'
P_R_sp == <<" ", "R">>    \* ' R'
P_1 == <<"1">>    \* '1'
P_12 == <<"1", "2">>    \* '12'
P_D == <<"D">>    \* 'D'
P_W == <<"W">>    \* 'W'
P_empty == <<>>    \* ''
SampleStatuses == {S_Accident, S_Retired, S_Finished, S_Gearbox, S_Disqualified, S_Illness, S_Mechanical, S_PowerUnit, S_Engine, S_Damage,
    <<"+", "1", " ", "L", "a", "p">>,    \* '+1 Lap'
    <<"L", "a", "p", "p", "e", "d">>,    \* 'Lapped'
    <<"E", "x", "c", "l", "u", "d", "e", "d">>,    \* 'Excluded'
    <<"C", "o", "l", "l", "i", "s", "i", "o", "n", " ", "d", "a", "m", "a", "g", "e">>,    \* 'Collision damage'
    <<"S", "p", "u", "n", " ", "o", "f", "f">>,    \* 'Spun off'
    <<"H", "y", "d", "r", "a", "u", "l", "i", "c", "s">>,    \* 'Hydraulics'
    <<"H", "y", "d", "r", "a", "u", "l", "i", "c", " ", "l", "e", "a", "k">>,    \* 'Hydraulic leak'
    <<"B", "l", "a", "c", "k", " ", "f", "l", "a", "g">>,    \* 'Black flag'
    <<"E", "R", "S">>,    \* 'ERS'
    <<"W", "i", "t", "h", "d", "r", "e", "w">>,    \* 'Withdrew'
    <<"N", "o", "t", " ", "c", "l", "a", "s", "s", "i", "f", "i", "e", "d">>,    \* 'Not classified'
    <<"D", "i", "d", " ", "n", "o", "t", " ", "q", "u", "a", "l", "i", "f", "y">>,    \* 'Did not qualify'
    <<"O", "i", "l", " ", "l", "e", "a", "k">>,    \* 'Oil leak'
    <<"B", "R", "A", "K", "E", "S", " ">>,    \* 'BRAKES '
    <<" ", "e", "n", "g", "i", "n", "e">>,    \* ' engine'
    <<"F", "u", "e", "l", " ", "p", "r", "e", "s", "s", "u", "r", "e">>,    \* 'Fuel pressure'
    <<"I", "n", "j", "u", "r", "y">>,    \* 'Injury'
    <<"T", "y", "r", "e", " ", "p", "u", "n", "c", "t", "u", "r", "e">>,    \* 'Tyre puncture'
    <<>>    \* ''
}
SamplePositionTexts == {NoneText, P_R, P_r, P_R_sp, P_1, P_12, P_D, P_W, P_empty}

DnfIdle == [pc |-> "idle", status |-> <<>>, position_text |-> <<>>, result |-> FALSE]

\* the classifier is applied to the input
Classify ==
    /\ dnf.pc = "input"
    /\ dnf' = [dnf EXCEPT !.pc = "done",
                          !.result = _is_mechanical_dnf_from_status(dnf.status,
                                                                    dnf.position_text)]
    /\ UNCHANGED <<client, cache, now, upTotal, ld, calls, season, view, health, auction, network, wiki>>

(***************************************************************************)
(* Season statistics (views.py, lines 503-690 and 784-914).  The upstream  *)
(* holds a calendar (one entry per round, with a date text) and the result *)
(* rows of the season, round after round; the loaders fetch the rows page  *)
(* by page, a race record holding the indices of its rows.                 *)
(***************************************************************************)
MaxRounds == 2         \* rounds of a season drawn freely

Today == 2             \* date.today(), a day number
NoDate == Absent       \* None

\* a calendar entry's "date": an ISO date, or a text date.fromisoformat rejects
IsoDate(d) == [iso |-> TRUE, day |-> d]
NotIso == [iso |-> FALSE, day |-> 0]
\* the dates of a season drawn freely: today, tomorrow, or no date
FreeDates == {IsoDate(Today), IsoDate(Today + 1), NotIso}

_parse_iso(d) == IF d.iso THEN d.day ELSE NoDate

\* driver ids, as texts: the upstream's are lower case, the URL's is as typed
D_max == <<"m", "a", "x">>
D_Max == <<"M", "a", "x">>
D_other == <<"y", "u", "k", "i">>
P_3 == <<"3">>
P_5 == <<"5">>

\* the result rows a driver may have in a race; points are in tenths
Win == [position |-> 1, positionText |-> P_1, grid |-> 1, points |-> 250,
        status |-> S_Finished]
Third == [position |-> 3, positionText |-> P_3, grid |-> 4, points |-> 150,
          status |-> S_Finished]
MechDnf == [position |-> 12, positionText |-> P_R, grid |-> 2, points |-> 0,
            status |-> S_Engine]
Fifth == [position |-> 5, positionText |-> P_5, grid |-> 5, points |-> 100,
          status |-> S_Finished]

Entry(who, profile) == [driverId |-> who] @@ profile

\* the entries of one race: none, the driver alone, or with the team mate before or after
RacePatterns ==
    {<<>>, <<Entry(D_max, Win)>>, <<Entry(D_other, Fifth), Entry(D_max, MechDnf)>>,
     <<Entry(D_max, Third), Entry(D_other, Fifth)>>}

\* the season's result rows: the entries of round 1, then of round 2, ...
RECURSIVE RowsFrom(_, _)
RowsFrom(pats, k) ==
    IF k > Len(pats) THEN <<>>
    ELSE [i \in 1..Len(pats[k]) |-> [round |-> k] @@ pats[k][i]] \o RowsFrom(pats, k + 1)

Reverse(s) == [i \in 1..Len(s) |-> s[Len(s) + 1 - i]]

\* a season: the calendar as the upstream lists it, and the result rows
MakeSeason(dates, pats, ascending) ==
    LET cal == [k \in 1..Len(dates) |-> [round |-> k, date |-> dates[k]]]
    IN  [races |-> IF ascending THEN cal ELSE Reverse(cal),
         rows |-> RowsFrom(pats, 1)]

Seasons ==
    {MakeSeason(dates, pats, asc) :
        dates \in [1..MaxRounds -> FreeDates],
        pats \in [1..MaxRounds -> RacePatterns],
        asc \in BOOLEAN}

\* seasons of three completed and two future races, the driver finishing first, third
\* and retiring with an engine failure in the completed ones, in any order
ScenarioDates ==
    <<IsoDate(Today - 1), IsoDate(Today - 1), IsoDate(Today),
      IsoDate(Today + 1), IsoDate(Today + 1)>>
WithMate(profile) ==
    {<<Entry(D_max, profile)>>,
     <<Entry(D_other, Fifth), Entry(D_max, profile)>>,
     <<Entry(D_max, profile), Entry(D_other, Fifth)>>}
ScenarioSeasons ==
    {MakeSeason(ScenarioDates, <<a, b, c, f, f>>, TRUE) :
        <<a, b, c>> \in UNION {WithMate(p[1]) \X WithMate(p[2]) \X WithMate(p[3]) :
                                 p \in {q \in [1..3 -> {Win, Third, MechDnf}] :
                                          {q[1], q[2], q[3]} = {Win, Third, MechDnf}}},
        f \in {<<>>, <<Entry(D_max, Win)>>}}

\* lines 508-517: the calendar with parsed dates, sorted by round (a stable sort)
RECURSIVE InsertByRound(_, _)
InsertByRound(r, sorted) ==
    IF sorted = <<>> THEN <<r>>
    ELSE IF r.round < Head(sorted).round THEN <<r>> \o sorted
    ELSE <<Head(sorted)>> \o InsertByRound(r, Tail(sorted))

RECURSIVE SortByRound(_)
SortByRound(s) ==
    IF s = <<>> THEN <<>>
    ELSE InsertByRound(s[Len(s)], SortByRound(SubSeq(s, 1, Len(s) - 1)))

\* a calendar as the upstream listed it, returned without the sort
_season_races_unsorted(payload) ==
    [i \in 1..Len(payload) |->
        [round |-> payload[i].round, date |-> _parse_iso(payload[i].date)]]

\* _season_races_ordered: payload is the calendar payload's "Races", [] on a failed fetch
_season_races_ordered(payload) ==
    SortByRound([i \in 1..Len(payload) |->
                   [round |-> payload[i].round, date |-> _parse_iso(payload[i].date)]])

\* the break test that lets every dated race through
NotCompleted_missing_only(rdate) == rdate = NoDate

\* not r["date"] or r["date"] > today
NotCompleted(rdate) == rdate = NoDate \/ rdate > Today

NoRecord == [round |-> Absent, rows |-> <<>>]

\* by_round = {round: r for r in races}: the last record of a round wins
by_round(table, rnd) ==
    LET ks == {k \in 1..Len(table) : table[k].round = rnd}
    IN  IF ks = {} THEN NoRecord
        ELSE table[CHOOSE k \in ks : \A j \in ks : j <= k]

\* next(res for res in rr["Results"] if driverId matches, ignoring case), 0 for None
FoundRow(rr, driver_id) ==
    LET ks == {k \in 1..Len(rr.rows) :
                  ToLower(season.rows[rr.rows[k]].driverId) = ToLower(driver_id)}
    IN  IF ks = {} THEN 0
        ELSE rr.rows[CHOOSE k \in ks : \A j \in ks : k <= j]

\* lines 533-560 (and 576-600): walk the calendar, stop at the first race not completed
RECURSIVE CompletedItems(_, _, _)
CompletedItems(races, table, driver_id) ==
    IF races = <<>> THEN <<>>
    ELSE LET r == Head(races)
             rr == by_round(table, r.round)
             found == FoundRow(rr, driver_id)
         IN  IF NotCompleted(r.date) THEN <<>>
             ELSE (IF rr = NoRecord \/ found = 0 THEN <<>>
                   ELSE <<[round |-> r.round, date |-> r.date] @@ season.rows[found]>>)
                  \o CompletedItems(Tail(races), table, driver_id)

\* sum(1 for r in rows if test(r)), hits being the indices of the rows that pass
Count(hits) == Cardinality(hits)

\* float(r.get("points") or 0.0), in tenths
PointsOf(r) == IF r.points = Absent THEN 0 ELSE r.points

\* a sum over int(...) instead of float(...): whole points only
RECURSIVE SumPoints_whole(_)
SumPoints_whole(rows) ==
    IF rows = <<>> THEN 0
    ELSE (PointsOf(Head(rows)) \div 10) * 10 + SumPoints_whole(Tail(rows))

RECURSIVE SumPoints(_)
SumPoints(rows) == IF rows = <<>> THEN 0 ELSE PointsOf(Head(rows)) + SumPoints(Tail(rows))

\* the counters over a list of result rows: lines 624-634 and 637-641
IsWin(r) == r.position = 1
\* a podium test that takes second and third places only
IsPodium_not_first(r) == r.position # Absent /\ r.position \in 2..3
IsPodium(r) == r.position # Absent /\ r.position <= 3
IsPole(r) == r.grid = 1
IsTop10(r) == r.position # Absent /\ r.position <= 10
IsTop8(r) == r.position # Absent /\ r.position <= 8
IsDnf(r) == _is_mechanical_dnf_from_status(OrEmpty(r.status), r.positionText)

GpStats(entered, rows) ==
    LET ks == 1..Len(rows)
    IN  [entered |-> entered, points |-> SumPoints(rows),
         wins |-> Count({k \in ks : IsWin(rows[k])}),
         podiums |-> Count({k \in ks : IsPodium(rows[k])}),
         poles |-> Count({k \in ks : IsPole(rows[k])}),
         top10 |-> Count({k \in ks : IsTop10(rows[k])}),
         dnfs |-> Count({k \in ks : IsDnf(rows[k])})]

SprintStats(entered, rows) ==
    LET ks == 1..Len(rows)
    IN  [entered |-> entered, points |-> SumPoints(rows),
         wins |-> Count({k \in ks : IsWin(rows[k])}),
         podiums |-> Count({k \in ks : IsPodium(rows[k])}),
         top8 |-> Count({k \in ks : IsTop8(rows[k])})]

\* by_round_date = {r["round"]: r["date"] for r in races_calendar}
by_round_date(races, rnd) ==
    LET ks == {k \in 1..Len(races) : races[k].round = rnd}
    IN  IF ks = {} THEN NoDate
        ELSE races[CHOOSE k \in ks : \A j \in ks : j <= k].date

\* lines 828-835 (and 863-870): the race records constructor_detail counts
RECURSIVE CountedRaces(_, _)
CountedRaces(races, table) ==
    IF table = <<>> THEN <<>>
    ELSE LET race == Head(table)
         IN  (IF NotCompleted(by_round_date(races, race.round)) \/ race.rows = <<>>
              THEN <<>> ELSE <<race>>) \o CountedRaces(races, Tail(table))

\* the result rows of a list of race records
RECURSIVE RowsOf(_)
RowsOf(table) ==
    IF table = <<>> THEN <<>>
    ELSE [k \in 1..Len(Head(table).rows) |-> season.rows[Head(table).rows[k]]]
         \o RowsOf(Tail(table))

\* per_page=200, the default of both loaders: above the page size the upstream serves
PerPageDefault == MaxPerPage

NoStats == [entered |-> 0, points |-> 0, wins |-> 0, podiums |-> 0]

ViewIdle ==
    [pc |-> "idle", fn |-> "none", driver_id |-> <<>>, base |-> 0,
     gpCalOk |-> FALSE, gpTable |-> <<>>, gpRounds |-> {}, gp |-> NoStats,
     spCalOk |-> FALSE, spTable |-> <<>>, spRounds |-> {}, sp |-> NoStats,
     failed |-> FALSE, shown |-> 0]

\* the calendar a view works with: [] when the fetch of the calendar failed
Calendar(ok) == _season_races_ordered(IF ok THEN season.races ELSE <<>>)

RoundsOf(items) == {items[k].round : k \in 1..Len(items)}

\* driver_detail, lines 607-611: Http404 unless the season's drivers hold the id
DriverDetailCall(driver_id, found) ==
    /\ view.pc = "idle"
    /\ view' = [view EXCEPT !.pc = IF found THEN "gp" ELSE "Http404",
                            !.fn = "driver_detail", !.driver_id = driver_id,
                            !.base = calls]
    /\ UNCHANGED <<client, cache, now, upTotal, ld, calls, dnf, season, health, auction, network, wiki>>

\* driver_detail, lines 622-634, once _load_year_collection("results") has returned
DriverGpStats(calOk) ==
    /\ view.pc = "gp"
    /\ view.fn = "driver_detail"
    /\ calls = view.base + 1
    /\ ld[1].pc = "done"
    /\ LET table == ld[1].ret.table
           items == CompletedItems(Calendar(calOk), table, view.driver_id)
       IN  view' = [view EXCEPT !.pc = "sp", !.gpCalOk = calOk, !.gpTable = table,
                                !.gpRounds = RoundsOf(items),
                                !.gp = GpStats(Len(items), items)]
    /\ UNCHANGED <<client, cache, now, upTotal, ld, calls, dnf, season, health, auction, network, wiki>>

\* driver_detail, lines 636-641, once _load_year_collection("sprint") has returned
DriverSprintStats(calOk) ==
    /\ view.pc = "sp"
    /\ view.fn = "driver_detail"
    /\ calls = view.base + 2
    /\ ld[1].pc = "done"
    /\ LET table == ld[1].ret.table
           items == CompletedItems(Calendar(calOk), table, view.driver_id)
       IN  view' = [view EXCEPT !.pc = "done", !.spCalOk = calOk, !.spTable = table,
                                !.spRounds = RoundsOf(items),
                                !.sp = SprintStats(Len(items), items)]
    /\ UNCHANGED <<client, cache, now, upTotal, ld, calls, dnf, season, health, auction, network, wiki>>

\* constructor_detail, lines 792-817; the driver cards and the standing row do not
\* enter the statistics
ConstructorDetailCall(calOk) ==
    /\ view.pc = "idle"
    /\ view' = [view EXCEPT !.pc = "gp", !.fn = "constructor_detail", !.base = calls,
                            !.gpCalOk = calOk, !.spCalOk = calOk]
    /\ UNCHANGED <<client, cache, now, upTotal, ld, calls, dnf, season, health, auction, network, wiki>>

\* constructor_detail, lines 819-854, once _constructor_results has returned
ConstructorGpStats ==
    /\ view.pc = "gp"
    /\ view.fn = "constructor_detail"
    /\ calls = view.base + 1
    /\ ld[1].pc = "done"
    /\ LET table == ld[1].ret.table
           counted == CountedRaces(Calendar(view.gpCalOk), table)
       IN  view' = [view EXCEPT !.pc = "sp", !.gpTable = table,
                                !.gpRounds = RoundsOf(counted),
                                !.gp = GpStats(Len(counted), RowsOf(counted))]
    /\ UNCHANGED <<client, cache, now, upTotal, ld, calls, dnf, season, health, auction, network, wiki>>

\* constructor_detail, lines 856-881, once _constructor_sprint has returned
ConstructorSprintStats ==
    /\ view.pc = "sp"
    /\ view.fn = "constructor_detail"
    /\ calls = view.base + 2
    /\ ld[1].pc = "done"
    /\ LET table == ld[1].ret.table
           counted == CountedRaces(Calendar(view.spCalOk), table)
       IN  view' = [view EXCEPT !.pc = "done", !.spTable = table,
                                !.spRounds = RoundsOf(counted),
                                !.sp = SprintStats(Len(counted), RowsOf(counted))]
    /\ UNCHANGED <<client, cache, now, upTotal, ld, calls, dnf, season, health, auction, network, wiki>>

\* the view is about to call its loader for the phase: results first, then sprint
Calls(fn, phase) ==
    /\ view.fn = fn
    /\ view.pc = phase
    /\ calls = view.base + (IF phase = "gp" THEN 0 ELSE 1)

\* the loader calls of the two views, and the pages they fetch
ViewLoaderNext ==
    \/ Calls("driver_detail", "gp") /\ LoadYearCall(1, "results", PerPageDefault)
    \/ Calls("driver_detail", "sp") /\ LoadYearCall(1, "sprint", PerPageDefault)
    \/ Calls("constructor_detail", "gp") /\ LoadCollectionCall(1, "results", PerPageDefault)
    \/ Calls("constructor_detail", "sp") /\ LoadCollectionCall(1, "sprint", PerPageDefault)
    \/ \E o \in Outcomes(NextBody(1)) : LoadYearPage(1, o)
    \/ \E o \in Outcomes(NextBody(1)) : LoadCollectionPage(1, o)

(***************************************************************************)
(* The api_health context processor (context_processors.py, lines 13-61):  *)
(* the probe _quick_ping and its result kept in Django's cache for         *)
(* TTL_SECONDS.  An entry of Django's cache set at time t with timeout n   *)
(* has expired once the clock shows t + n.                                 *)
(***************************************************************************)
TTL_SECONDS == 15
MaxSeconds == TTL_SECONDS + 2    \* the clock of the health model stops here

NotANumber == Absent - 1         \* a "total" that int() rejects

\* what the seasons endpoint reports as "total" to the probe
ProbeBodies == {[EmptyMRData EXCEPT !.total = n] : n \in {Absent, 0, 1, NotANumber}}

HealthIdle ==
    [t |-> 0, present |-> FALSE, value |-> FALSE, expires |-> 0,
     called |-> FALSE, probed |-> FALSE, resp |-> Sentinel, probeAt |-> 0,
     probeOk |-> FALSE, degraded |-> FALSE]

\* cache.get(API_HEALTH_KEY): hit is "the value is not None"
DjangoCacheGet(h) ==
    IF h.present /\ h.expires > h.t THEN [hit |-> TRUE, value |-> h.value]
    ELSE [hit |-> FALSE, value |-> FALSE]

\* cache.set(API_HEALTH_KEY, ok, timeout)
DjangoCacheSet(h, ok, timeout) ==
    [h EXCEPT !.present = TRUE, !.value = ok, !.expires = h.t + timeout]

\* a probe that takes any answer that parses for a healthy upstream
_quick_ping_any_total(resp) ==
    IF resp.total = NotANumber THEN FALSE ELSE PageTotal(resp) >= 0

\* _quick_ping, given what client.get_url returned: int() raising is caught, lines 44-45
_quick_ping(resp) ==
    IF resp.total = NotANumber THEN FALSE ELSE PageTotal(resp) > 0

\* the health record after api_health(request), the probe's request having the outcome o
api_health(o) ==
    LET ok == DjangoCacheGet(health)
        resp == get_url_iter(0, 0, DefaultRetryStatuses, o).value
        pinged == _quick_ping(resp)
    IN  IF ok.hit
        THEN [health EXCEPT !.called = TRUE, !.probed = FALSE, !.degraded = ~ok.value]
        ELSE [DjangoCacheSet(health, pinged, TTL_SECONDS) EXCEPT
                  !.called = TRUE, !.probed = TRUE, !.resp = resp,
                  !.probeAt = health.t, !.probeOk = pinged, !.degraded = ~pinged]

\* the context processor runs
ApiHealth(o) ==
    /\ health' = api_health(o)
    /\ UNCHANGED <<client, cache, now, upTotal, ld, calls, dnf, season, view, auction, network, wiki>>

\* a second passes
HealthTick ==
    /\ health.t < MaxSeconds
    /\ health' = [health EXCEPT !.t = @ + 1]
    /\ UNCHANGED <<client, cache, now, upTotal, ld, calls, dnf, season, view, auction, network, wiki>>

(***************************************************************************)
(* The page views that show one season's data from a single get_url each   *)
(* (views.py, lines 144-206 and 280-425).  A view ends in a rendered page, *)
(* on which the api_health context processor runs, or in Http404.          *)
(***************************************************************************)
\* what get_url of a default JolpiClient returns when its request has the outcome o
get_url(o) == get_url_iter(0, 0, DefaultRetryStatuses, o).value

\* the upstream's answer to /<year>/races/: the calendar
RacesBody ==
    [total |-> Len(season.races), limit |-> Len(season.races), offset |-> 0,
     kind |-> "RaceTable", table |-> season.races]

\* the upstream's answer to /<year>/driverstandings/ or /<year>/constructorstandings/
StandingsBody(resource) == UpstreamPage(resource, upTotal, ServerMaxLimit, 0)

\* what get_url may return for a request that would rightly get `body`
Fetched(body) == {get_url(o) : o \in Outcomes(body)}

\* _fetch_year_races: MRData.RaceTable.Races of the payload, [] when there is none
_fetch_year_races(payload) == payload.table

\* lines 161-172: the highest round dated today or earlier, Absent for None
_last_completed_round(races) ==
    LET past_rounds == {races[k].round :
                          k \in {j \in 1..Len(races) :
                                   races[j].date.iso /\ races[j].date.day <= Today}}
    IN  IF past_rounds = {} THEN Absent
        ELSE CHOOSE r \in past_rounds : \A q \in past_rounds : q <= r

\* the view's result: got is the length of the list the view looked at
Page(fn, pc, failed, got, shown) ==
    [ViewIdle EXCEPT !.fn = fn, !.pc = pc, !.failed = failed, !.base = got,
                     !.shown = shown]

\* the response is sent: render(...) runs the context processor, Http404 does not
Respond(result, oh) ==
    /\ view' = result
    /\ health' = IF result.pc = "rendered" THEN api_health(oh) ELSE health
    /\ UNCHANGED <<client, cache, now, upTotal, ld, calls, dnf, season, auction, network, wiki>>

\* schedule_year: lines 196-206, payload being what its get_url returned
ScheduleYear(payload, oh) ==
    LET races == _fetch_year_races(payload)
    IN  Respond(Page("schedule_year", IF races = <<>> THEN "Http404" ELSE "rendered",
                     payload = Sentinel, Len(races), Len(races)), oh)

\* results_season: lines 280-304
ResultsSeason(payload, oh) ==
    LET races == _fetch_year_races(payload)
        last_done == _last_completed_round(races)
        filtered == IF last_done # Absent /\ last_done # 0
                    THEN SelectSeq(races, LAMBDA r : r.round <= last_done)
                    ELSE <<>>
    IN  Respond(Page("results_season", "rendered", payload = Sentinel,
                     Len(races), Len(filtered)), oh)

\* standings_drivers (lines 307-336) and standings_constructors (lines 339-366)
Standings(fn, payload, oh) ==
    LET lists == payload.table
    IN  Respond(Page(fn, IF lists = <<>> THEN "Http404" ELSE "rendered",
                     payload = Sentinel, Len(lists),
                     IF lists = <<>> THEN 0 ELSE Len(lists[1].rows)), oh)

StandingsDrivers(payload, oh) == Standings("standings_drivers", payload, oh)

StandingsConstructors(payload, oh) == Standings("standings_constructors", payload, oh)

\* results_year_hub: lines 387-444, drv_data and con_data what its two requests returned
ResultsYearHub(drv_data, con_data, oh) ==
    LET drv_lists == drv_data.table
        con_lists == con_data.table
        drv_rows == IF drv_lists = <<>> THEN 0 ELSE Len(drv_lists[1].rows)
        con_rows == IF con_lists = <<>> THEN 0 ELSE Len(con_lists[1].rows)
    IN  Respond(Page("results_year_hub",
                     IF drv_lists = <<>> THEN "Http404" ELSE "rendered",
                     drv_data = Sentinel /\ con_data = Sentinel,
                     Len(drv_lists), drv_rows + con_rows), oh)

\* the outcomes of the probe's request, one for each thing get_url can return
ProbeOutcomes == {Response(200, TRUE, body) : body \in ProbeBodies} \cup {Failure("timeout")}

\* the calendars of the seasons the pages are asked for: up to MaxRounds races, or none
PageSeasons ==
    {MakeSeason(dates, [k \in 1..Len(dates) |-> <<>>], asc) :
        dates \in UNION {[1..n -> FreeDates] : n \in 0..MaxRounds}, asc \in BOOLEAN}

(***************************************************************************)
(* The auctions application (commerce/auctions): one listing, its bids in  *)
(* creation order, and the requests being handled.  A request handler is   *)
(* a sequence of database operations: place_bid reads the listing, reads   *)
(* the current price, creates the Bid; auction_close reads the listing and *)
(* saves it.  Amounts are in cents.                                        *)
(***************************************************************************)
MaxAmount == 4         \* the largest amount a bid form carries
MaxStarted == 3        \* requests taken in one run
Requests == {1, 2}     \* the requests that may be in progress at a time
Users == {"ann", "bob"}
Methods == {"GET", "POST"}
NoUser == "none"

RequestIdle ==
    [pc |-> "idle", handler |-> "none", user |-> NoUser, method |-> "none",
     amount |-> 0, is_active |-> FALSE, current_price |-> 0, bids0 |-> 0,
     response |-> "none"]

AuctionIdle ==
    [owner |-> "ann", starting_bid |-> 1, is_active |-> TRUE, bids |-> <<>>,
     req |-> [i \in Requests |-> RequestIdle], started |-> 0]

\* a price read that ignores the bids
get_current_price_of_listing(listing) == listing.starting_bid

\* Listing.get_current_price, models.py 42-46: the highest bid, or the starting bid
get_current_price(listing) ==
    IF listing.bids = <<>> THEN listing.starting_bid
    ELSE LET ks == 1..Len(listing.bids)
         IN  listing.bids[CHOOSE k \in ks :
                             \A j \in ks : listing.bids[j].amount <= listing.bids[k].amount
                          ].amount

\* BidForm.is_valid, forms.py 67-73: a decimal of at least 0.01 (0 stands for any other input)
BidFormValid(amount) == amount >= 1

Finished(i) == auction.req[i].pc \in {"idle", "done"}

Respond_(r, response) == [r EXCEPT !.pc = "done", !.response = response]

\* place_bid, lines 126-138: the listing is read, the method, the form and is_active are
\* tested
PlaceBidRead(i, user, method, amount) ==
    /\ Finished(i)
    /\ auction.started < MaxStarted
    /\ LET r == [RequestIdle EXCEPT !.handler = "place_bid", !.user = user,
                                    !.method = method, !.amount = amount,
                                    !.is_active = auction.is_active,
                                    !.bids0 = Len(auction.bids)]
       IN  auction' = [auction EXCEPT !.started = @ + 1, !.req[i] =
                         IF method # "POST" THEN Respond_(r, "redirect")
                         ELSE IF ~BidFormValid(amount) THEN Respond_(r, "errors")
                         ELSE IF ~r.is_active THEN Respond_(r, "errors")
                         ELSE [r EXCEPT !.pc = "price"]]
    /\ UNCHANGED <<f1vars, network, wiki>>

\* place_bid, lines 140-150: the current price is read and the amount is tested
PlaceBidPrice(i) ==
    /\ auction.req[i].pc = "price"
    /\ LET r == auction.req[i]
           current_price == get_current_price(auction)
       IN  auction' = [auction EXCEPT !.req[i] =
                         IF r.amount < auction.starting_bid \/ r.amount <= current_price
                         THEN Respond_([r EXCEPT !.current_price = current_price], "errors")
                         ELSE [r EXCEPT !.pc = "create", !.current_price = current_price]]
    /\ UNCHANGED <<f1vars, network, wiki>>

\* place_bid, lines 152-153: Bid.objects.create
PlaceBidCreate(i) ==
    /\ auction.req[i].pc = "create"
    /\ LET r == auction.req[i]
       IN  auction' = [auction EXCEPT
                         !.bids = Append(@, [amount |-> r.amount, bidder |-> r.user]),
                         !.req[i] = Respond_(r, "redirect")]
    /\ UNCHANGED <<f1vars, network, wiki>>

\* an auction_close that does not test who asks
AuctionCloseRead_any_user(i, user, method) ==
    /\ Finished(i)
    /\ auction.started < MaxStarted
    /\ LET r == [RequestIdle EXCEPT !.handler = "auction_close", !.user = user,
                                    !.method = method,
                                    !.is_active = auction.is_active,
                                    !.bids0 = Len(auction.bids)]
       IN  auction' = [auction EXCEPT !.started = @ + 1, !.req[i] =
                         IF method = "POST" /\ r.is_active
                         THEN [r EXCEPT !.pc = "save"]
                         ELSE Respond_(r, "redirect")]
    /\ UNCHANGED <<f1vars, network, wiki>>

\* auction_close, lines 158-159: the listing is read and the request is tested
AuctionCloseRead(i, user, method) ==
    /\ Finished(i)
    /\ auction.started < MaxStarted
    /\ LET r == [RequestIdle EXCEPT !.handler = "auction_close", !.user = user,
                                    !.method = method,
                                    !.is_active = auction.is_active,
                                    !.bids0 = Len(auction.bids)]
       IN  auction' = [auction EXCEPT !.started = @ + 1, !.req[i] =
                         IF method = "POST" /\ auction.owner = user /\ r.is_active
                         THEN [r EXCEPT !.pc = "save"]
                         ELSE Respond_(r, "redirect")]
    /\ UNCHANGED <<f1vars, network, wiki>>

\* auction_close, lines 160-162: listing.is_active = False; listing.save()
AuctionCloseSave(i) ==
    /\ auction.req[i].pc = "save"
    /\ auction' = [auction EXCEPT !.is_active = FALSE,
                                  !.req[i] = Respond_(@, "redirect")]
    /\ UNCHANGED <<f1vars, network, wiki>>

(***************************************************************************)
(* The network application (project4/network): two posts, the Like rows,   *)
(* and the two JSON handlers of views.py.  A request is handled in one     *)
(* step: the handlers are checked for requests processed one at a time.    *)
(***************************************************************************)
MaxContent == 2
MaxBody == MaxContent + 1
TextChars == {" ", "a"}
Anonymous == "anonymous"
PostIds == {1, 2}
AskedIds == PostIds \cup {3}
NetworkMembers == Users \cup {Anonymous}

\* what a request carries as content: up to MaxBody characters, or no content field
Contents == UNION {[1..n -> TextChars] : n \in 0..MaxBody} \cup {NoneText}

\* the body of an edit request: a form, a JSON object, JSON that is valid but
\* is not an object, or text that json.loads rejects
Bodies ==
    {[kind |-> k, content |-> c] : k \in {"form", "object"}, c \in Contents}
        \cup {[kind |-> k, content |-> NoneText] : k \in {"not_object", "invalid"}}

\* a request without a body, as a GET is
NoBody == [kind |-> "form", content |-> NoneText]
NoAnswer == [handler |-> "none", user |-> NoUser, method |-> "none", post_id |-> 0,
             body |-> NoBody, status |-> 0, liked |-> FALSE, likes |-> 0]
NetworkIdle ==
    [posts |-> [p \in PostIds |->
                   [author |-> IF p = 1 THEN "ann" ELSE "bob", content |-> <<"a">>]],
     likes |-> <<>>,
     before |-> {},
     last |-> NoAnswer]

\* login_required, require_POST and get_object_or_404, in the order they run:
\* the status they answer with, or 0 when the request reaches the handler's body
Refused(user, method, post_id) ==
    IF user = Anonymous THEN 302
    ELSE IF method # "POST" THEN 405
    ELSE IF post_id \notin PostIds THEN 404
    ELSE 0

\* edit_post_api without the test of the author
edit_post_api_any_author(user, method, post_id, body) ==
    LET content == Strip(OrEmpty(body.content))
        status == IF Refused(user, method, post_id) # 0 THEN Refused(user, method, post_id)
                  ELSE IF body.kind = "invalid" THEN 400
                  ELSE IF body.kind = "not_object" THEN 500
                  ELSE IF content = <<>> THEN 400
                  ELSE IF Len(content) > MaxContent THEN 400
                  ELSE 200
    IN  /\ network' = [network EXCEPT
                         !.posts = IF status = 200
                                   THEN [@ EXCEPT ![post_id].content = content]
                                   ELSE @,
                         !.last = [NoAnswer EXCEPT
                                     !.handler = "edit_post_api", !.user = user,
                                     !.method = method, !.post_id = post_id,
                                     !.body = body, !.status = status]]
        /\ UNCHANGED <<f1vars, auction, wiki>>

\* edit_post_api, lines 196-225.  data.get of a JSON value that is not an object
\* raises outside the try of lines 206-210, which the server answers with 500.
edit_post_api(user, method, post_id, body) ==
    LET content == Strip(OrEmpty(body.content))
        status == IF Refused(user, method, post_id) # 0 THEN Refused(user, method, post_id)
                  ELSE IF network.posts[post_id].author # user THEN 403
                  ELSE IF body.kind = "invalid" THEN 400
                  ELSE IF body.kind = "not_object" THEN 500
                  ELSE IF content = <<>> THEN 400
                  ELSE IF Len(content) > MaxContent THEN 400
                  ELSE 200
    IN  /\ network' = [network EXCEPT
                         !.posts = IF status = 200
                                   THEN [@ EXCEPT ![post_id].content = content]
                                   ELSE @,
                         !.last = [NoAnswer EXCEPT
                                     !.handler = "edit_post_api", !.user = user,
                                     !.method = method, !.post_id = post_id,
                                     !.body = body, !.status = status]]
        /\ UNCHANGED <<f1vars, auction, wiki>>

\* the Like rows of a user for a post, by position
LikesOf(likes, user, post_id) ==
    {i \in 1..Len(likes) : likes[i].user = user /\ likes[i].post = post_id}
\* post.likes.count()
LikesCount(likes, post_id) == Cardinality({i \in 1..Len(likes) : likes[i].post = post_id})
\* the rows as pairs
LikePairs(likes) == {<<likes[i].user, likes[i].post>> : i \in 1..Len(likes)}
\* like.delete(): the rows without the one at position i
WithoutRow(likes, i) == SubSeq(likes, 1, i - 1) \o SubSeq(likes, i + 1, Len(likes))

\* the answer of toggle_like_api and what it leaves in the table
ToggleAnswer(user, method, post_id, status, likes, liked) ==
    /\ network' = [network EXCEPT
                     !.likes = likes,
                     !.before = LikePairs(network.likes),
                     !.last = [NoAnswer EXCEPT
                                 !.handler = "toggle_like_api", !.user = user,
                                 !.method = method, !.post_id = post_id,
                                 !.status = status, !.liked = liked,
                                 !.likes = IF status = 200
                                           THEN LikesCount(likes, post_id) ELSE 0]]
    /\ UNCHANGED <<f1vars, auction, wiki>>

\* toggle_like_api with create in the place of get_or_create
toggle_like_api_create(user, method, post_id) ==
    IF Refused(user, method, post_id) # 0
    THEN ToggleAnswer(user, method, post_id, Refused(user, method, post_id),
                      network.likes, FALSE)
    ELSE ToggleAnswer(user, method, post_id, 200,
                      Append(network.likes, [user |-> user, post |-> post_id]), TRUE)

\* toggle_like_api, lines 228-240.  get_or_create raises when it finds more
\* than one row, which the server answers with 500.
toggle_like_api(user, method, post_id) ==
    LET found == LikesOf(network.likes, user, post_id)
    IN  IF Refused(user, method, post_id) # 0
        THEN ToggleAnswer(user, method, post_id, Refused(user, method, post_id),
                          network.likes, FALSE)
        ELSE IF found = {}
        THEN ToggleAnswer(user, method, post_id, 200,
                          Append(network.likes, [user |-> user, post |-> post_id]), TRUE)
        ELSE IF Cardinality(found) = 1
        THEN ToggleAnswer(user, method, post_id, 200,
                          WithoutRow(network.likes, CHOOSE i \in found : TRUE), FALSE)
        ELSE ToggleAnswer(user, method, post_id, 500, network.likes, FALSE)

(***************************************************************************)
(* The wiki (wiki/encyclopedia): the entries as files, title to content,   *)
(* and the two handlers of views.py that save one.                         *)
(***************************************************************************)
\* the titles a request may carry: in two spellings, with a space before, empty
WikiTitles == {<<>>, <<"P">>, <<"p">>, <<" ", "p">>, <<"P", "y">>, <<"p", "y">>, <<"p", "Y">>}
\* the content a request may carry
WikiContents == {<<>>, <<"x">>, <<"y">>}

WikiNoAnswer == [handler |-> "none", method |-> "none", title |-> <<>>, content |-> <<>>,
                 response |-> "none", errors |-> "none"]
WikiIdle == [entries |-> [t \in {<<"P">>} |-> <<"x">>], last |-> WikiNoAnswer]

\* util.list_entries()
list_entries(entries) == DOMAIN entries
\* util.get_entry(title)
get_entry(entries, title) == IF title \in DOMAIN entries THEN entries[title] ELSE NoneText
\* util.save_entry(title, content)
save_entry(entries, title, content) ==
    [t \in DOMAIN entries \cup {title} |-> IF t = title THEN content ELSE entries[t]]

\* what a handler leaves behind
WikiAnswer(handler, method, title, content, entries, response, errors) ==
    /\ wiki' = [entries |-> entries,
                last |-> [handler |-> handler, method |-> method, title |-> title,
                          content |-> content, response |-> response, errors |-> errors]]
    /\ UNCHANGED <<f1vars, auction, network>>

\* new_page comparing the titles as they are written
new_page_exact(method, title, content) ==
    LET cleaned == Strip(title)
    IN  IF method # "POST"
        THEN WikiAnswer("new_page", method, title, content, wiki.entries, "form", "none")
        ELSE IF cleaned = <<>> \/ Strip(content) = <<>>
        THEN WikiAnswer("new_page", method, title, content, wiki.entries, "form", "invalid")
        ELSE IF \E e \in list_entries(wiki.entries) : cleaned = e
        THEN WikiAnswer("new_page", method, title, content, wiki.entries, "form", "exists")
        ELSE WikiAnswer("new_page", method, title, content,
                        save_entry(wiki.entries, cleaned, Strip(content)), "redirect", "none")

\* new_page, lines 87-103; the form's fields are required and stripped (lines 11-18)
new_page(method, title, content) ==
    LET cleaned == Strip(title)
    IN  IF method # "POST"
        THEN WikiAnswer("new_page", method, title, content, wiki.entries, "form", "none")
        ELSE IF cleaned = <<>> \/ Strip(content) = <<>>
        THEN WikiAnswer("new_page", method, title, content, wiki.entries, "form", "invalid")
        ELSE IF \E e \in list_entries(wiki.entries) : ToLower(cleaned) = ToLower(e)
        THEN WikiAnswer("new_page", method, title, content, wiki.entries, "form", "exists")
        ELSE WikiAnswer("new_page", method, title, content,
                        save_entry(wiki.entries, cleaned, Strip(content)), "redirect", "none")

\* edit_page, lines 106-123; title is the one of the address
edit_page(method, title, content) ==
    IF get_entry(wiki.entries, title) = NoneText
    THEN WikiAnswer("edit_page", method, title, content, wiki.entries, "Http404", "none")
    ELSE IF method = "POST" /\ Strip(content) # <<>>
    THEN WikiAnswer("edit_page", method, title, content,
                    save_entry(wiki.entries, title, Strip(content)), "redirect", "none")
    ELSE WikiAnswer("edit_page", method, title, content, wiki.entries, "form",
                    IF method = "POST" THEN "invalid" ELSE "none")


(***************************************************************************)
(* Specifications.                                                         *)
(***************************************************************************)
DefaultSeason ==
    [races |-> <<>>,
     rows |-> [i \in 1..MaxTotal |-> [round |-> ((i - 1) \div RowsPerRace) + 1]]]

\* the Formula 1 application before its first request
InitF1 ==
    /\ client = ClientIdle
    /\ cache = [k \in Keys |-> NoEntry]
    /\ now = 0
    /\ ld = [h \in Handlers |-> LoaderIdle]
    /\ calls = 0
    /\ dnf = DnfIdle
    /\ view = ViewIdle
    /\ health = HealthIdle

InitCommon ==
    /\ InitF1
    /\ auction = AuctionIdle
    /\ network = NetworkIdle
    /\ wiki = WikiIdle

Init ==
    /\ InitCommon
    /\ upTotal \in 0..MaxTotal
    /\ season = DefaultSeason

Next ==
    \/ LoaderNext(1)
    \/ Tick
    \/ UpstreamChange

Spec == Init /\ [][Next]_vars

InitClient ==
    /\ InitCommon
    /\ upTotal = 0
    /\ season = DefaultSeason

SpecClient == InitClient /\ [][ClientNext]_vars

InitDnf ==
    /\ client = ClientIdle
    /\ cache = [k \in Keys |-> NoEntry]
    /\ now = 0
    /\ ld = [h \in Handlers |-> LoaderIdle]
    /\ calls = 0
    /\ view = ViewIdle
    /\ health = HealthIdle
    /\ auction = AuctionIdle
    /\ network = NetworkIdle
    /\ wiki = WikiIdle
    /\ upTotal = 0
    /\ season = DefaultSeason
    /\ dnf \in {[pc |-> "input", status |-> s, position_text |-> p, result |-> FALSE] :
                   s \in SampleStatuses, p \in SamplePositionTexts}

SpecDnf == InitDnf /\ [][Classify]_vars

InitStats ==
    /\ InitCommon
    /\ season \in Seasons \cup ScenarioSeasons
    /\ upTotal = Len(season.rows)

NextStats ==
    \/ \E found \in BOOLEAN : DriverDetailCall(D_Max, found)
    \/ \E ok \in BOOLEAN : DriverGpStats(ok)
    \/ \E ok \in BOOLEAN : DriverSprintStats(ok)
    \/ \E ok \in BOOLEAN : ConstructorDetailCall(ok)
    \/ ConstructorGpStats
    \/ ConstructorSprintStats
    \/ ViewLoaderNext

SpecStats == InitStats /\ [][NextStats]_vars

InitHealth ==
    /\ InitCommon
    /\ upTotal = 0
    /\ season = DefaultSeason

NextHealth ==
    \/ \E body \in ProbeBodies : \E o \in Outcomes(body) : ApiHealth(o)
    \/ HealthTick

SpecHealth == InitHealth /\ [][NextHealth]_vars

InitPages ==
    /\ InitCommon
    /\ season \in PageSeasons
    /\ upTotal \in 0..MaxTotal

NextPages ==
    \/ \E p \in Fetched(RacesBody), oh \in ProbeOutcomes : ScheduleYear(p, oh)
    \/ \E p \in Fetched(RacesBody), oh \in ProbeOutcomes : ResultsSeason(p, oh)
    \/ \E p \in Fetched(StandingsBody("driverstandings")), oh \in ProbeOutcomes :
          StandingsDrivers(p, oh)
    \/ \E p \in Fetched(StandingsBody("constructorstandings")), oh \in ProbeOutcomes :
          StandingsConstructors(p, oh)
    \/ \E p \in Fetched(StandingsBody("driverstandings")),
          q \in Fetched(StandingsBody("constructorstandings")), oh \in ProbeOutcomes :
          ResultsYearHub(p, q, oh)

SpecPages == InitPages /\ [][NextPages]_vars

(***************************************************************************)
(* Properties of the loaders and the cache (checked under Spec).           *)
(***************************************************************************)
YearFn == "_load_year_collection"
KeyOf(l) == cache_key(l.resource, l.per_page)

\* h makes a call of _load_year_collection in this step
YearCallStep(h) ==
    /\ calls' = calls + 1
    /\ ld'[h] # ld[h]
    /\ ld'[h].fn = YearFn

\* h's load of _load_year_collection ends in this step
YearLoadEnds(h) ==
    /\ ld[h].pc = "loading"
    /\ ld[h].fn = YearFn
    /\ ld'[h].pc = "done"

\* C1 (as claimed): whenever a load ends and none of its requests failed, the merged
\* payload holds as many items as the total the upstream reported, for every resource,
\* page size and number of pages, in _load_year_collection and in _load_collection.
C1_CountEqualsTotal ==
    \A h \in Handlers :
        (ld[h].pc = "done" /\ ld[h].reqs > 0 /\ ~ld[h].failed)
            => ItemCount(ld[h].ret) = ld[h].total

\* C2: a call of _load_year_collection that follows a call with the same resource and
\* page size, while the entry is at most TTL old, returns the payload of the earlier
\* call, sends no request and leaves the cache as it is.
C2_CacheIdempotence ==
    [][\A h \in Handlers :
        (/\ YearCallStep(h)
         /\ ld[h].pc = "done"
         /\ ld[h].fn = YearFn
         /\ KeyOf(ld'[h]) = KeyOf(ld[h])
         /\ now - cache[KeyOf(ld[h])].ts <= _CACHE_TTL)
        => (/\ ld'[h].pc = "done"
            /\ ld'[h].reqs = 0
            /\ ld'[h].ret = ld[h].ret
            /\ cache' = cache)]_vars

\* a second call on a fresh entry has returned, after the upstream has changed
C2_Witness ==
    /\ ld[1].pc = "done"
    /\ ld[1].fn = YearFn
    /\ calls = 2
    /\ ld[1].found = "fresh"
    /\ ld[1].reqs = 0
    /\ now > cache[KeyOf(ld[1])].ts
    /\ ItemCount(ld[1].ret) > 0
    /\ ItemCount(ld[1].ret) < upTotal

\* C3: a lookup is a hit exactly when an entry exists with now - ts <= TTL; a hit
\* returns the entry's payload at once; any other lookup starts one load, no entry
\* changes while the load runs, and the end of the load overwrites the entry of its key
\* with the loaded payload and the time of the store.
C3_CacheFreshness ==
    [][\A h \in Handlers :
        /\ YearCallStep(h) =>
             LET e == cache[KeyOf(ld'[h])]
             IN  /\ cache' = cache
                 /\ ld'[h].reqs = 0
                 /\ IF e.present /\ now - e.ts <= _CACHE_TTL
                    THEN ld'[h].pc = "done" /\ ld'[h].ret = e.data
                    ELSE ld'[h].pc = "loading" /\ ld'[h].offset = 0
        /\ (ld[h].pc = "loading" /\ ld[h].fn = YearFn /\ ld'[h].pc # "done")
             => cache' = cache
        /\ YearLoadEnds(h) =>
             /\ ld'[h].reqs >= 1
             /\ cache' = [cache EXCEPT ![KeyOf(ld[h])] =
                            [present |-> TRUE, ts |-> now, data |-> ld'[h].ret]]]_vars

\* a lookup found an entry older than the TTL and the load it started has replaced it
C3_Witness ==
    /\ ld[1].pc = "done"
    /\ ld[1].fn = YearFn
    /\ ld[1].found = "expired"
    /\ ld[1].reqs >= 1
    /\ ~ld[1].failed
    /\ cache[KeyOf(ld[1])].data = ld[1].ret
    /\ ItemCount(ld[1].ret) = upTotal
    /\ upTotal > 0

\* C10 (as claimed): a load of _load_year_collection never ends normally on a page
\* whose fetch failed: such a page is fetched again, up to three times, and when the
\* third attempt fails too the load raises and writes no cache entry.
C10_FailedPageIsFatal ==
    \A h \in Handlers :
        (ld[h].fn = YearFn /\ ld[h].reqs > 0 /\ ld[h].lastFailed)
            => /\ ld[h].pc # "done"
               /\ ld[h].pc = "raised" => ld[h].attempt = PageAttempts - 1

(***************************************************************************)
(* Properties of JolpiClient.get_url (checked under SpecClient).  The      *)
(* retry_statuses of the model are sets of server error codes.             *)
(***************************************************************************)
\* C8: get_url never raises; it returns the parsed JSON when the last response is a
\* success whose body parses, and the sentinel {"MRData": {"total": 0}} after every
\* other outcome (timeout, connection or read error, error status, any other error).
C8_NeverRaises ==
    /\ client.pc # "raised"
    /\ (client.pc = "done" /\ client.requests > 0) =>
         client.result =
            IF /\ client.last.kind = "response"
               /\ Is2xx(client.last.status)
               /\ client.last.valid
            THEN client.last.body
            ELSE Sentinel

\* a call has ended in the sentinel after a retry and a transport error
C8_Witness ==
    /\ client.pc = "done"
    /\ client.requests = 2
    /\ client.last.kind \in ErrorKinds
    /\ client.result = Sentinel

\* C9: a client built with retries = n sends at most max(0, n) + 1 requests per call
\* (n + 1 for n >= 0); while the loop runs the requests sent equal the attempt counter,
\* which never exceeds the bound, so the call ends; a further request follows only a
\* response with a status of retry_statuses; and when the last allowed attempt also
\* gets such a status the call returns the sentinel.
C9_BoundedRetries ==
    /\ client.requests <= client.retries + 1
    /\ client.retriesArg >= 0 => client.requests <= client.retriesArg + 1
    /\ client.pc = "loop" =>
         /\ client.attempt = client.requests
         /\ client.attempt <= client.retries
    /\ (client.pc = "loop" /\ client.requests >= 1) =>
         /\ client.last.kind = "response"
         /\ client.last.status \in client.retry_statuses
    /\ (/\ client.pc = "done"
        /\ client.requests = client.retries + 1
        /\ client.last.kind = "response"
        /\ client.last.status \in client.retry_statuses)
         => client.result = Sentinel

\* every allowed attempt of a call with retries = MaxRetries got a retryable status
C9_Witness ==
    /\ client.pc = "done"
    /\ client.retriesArg = MaxRetries
    /\ client.requests = MaxRetries + 1
    /\ client.last.kind = "response"
    /\ client.last.status \in client.retry_statuses
    /\ client.result = Sentinel

(***************************************************************************)
(* Properties of the classifier (checked under SpecDnf).                   *)
(***************************************************************************)
\* the non-mechanical causes the claim lists
ClaimNonMech == {
    <<"a", "c", "c", "i", "d", "e", "n", "t">>,    \* accident
    <<"c", "o", "l", "l", "i", "s", "i", "o", "n">>,    \* collision
    <<"s", "p", "i", "n">>,    \* spin
    <<"c", "r", "a", "s", "h">>,    \* crash
    <<"c", "o", "n", "t", "a", "c", "t">>,    \* contact
    <<"i", "l", "l", "e", "g", "a", "l">>,    \* illegal
    <<"i", "n", "j", "u", "r", "y">>,    \* injury
    <<"w", "i", "t", "h", "d", "r", "e", "w">>,    \* withdrew
    <<"n", "o", "t", " ", "c", "l", "a", "s", "s", "i", "f", "i", "e", "d">>,    \* not classified
    <<"t", "i", "m", "e", " ", "p", "e", "n", "a", "l", "t", "y">>,    \* time penalty
    <<"d", "i", "d", " ", "n", "o", "t", " ", "q", "u", "a", "l", "i", "f", "y">>    \* did not qualify
}

\* the mechanical-cause keywords the claim lists
ClaimMech == {
    <<"e", "n", "g", "i", "n", "e">>,    \* engine
    <<"g", "e", "a", "r", "b", "o", "x">>,    \* gearbox
    <<"h", "y", "d", "r", "a", "u", "l", "i", "c", "s">>,    \* hydraulics
    <<"e", "l", "e", "c", "t", "r", "i", "c", "a", "l">>,    \* electrical
    <<"s", "u", "s", "p", "e", "n", "s", "i", "o", "n">>,    \* suspension
    <<"b", "r", "a", "k", "e">>,    \* brake
    <<"c", "l", "u", "t", "c", "h">>,    \* clutch
    <<"d", "r", "i", "v", "e", "s", "h", "a", "f", "t">>,    \* driveshaft
    <<"e", "x", "h", "a", "u", "s", "t">>,    \* exhaust
    <<"f", "u", "e", "l">>,    \* fuel
    <<"o", "i", "l">>,    \* oil
    <<"o", "v", "e", "r", "h", "e", "a", "t", "i", "n", "g">>,    \* overheating
    <<"s", "t", "e", "e", "r", "i", "n", "g">>,    \* steering
    <<"b", "a", "t", "t", "e", "r", "y">>,    \* battery
    <<"r", "a", "d", "i", "a", "t", "o", "r">>,    \* radiator
    <<"t", "u", "r", "b", "o">>,    \* turbo
    <<"e", "r", "s">>,    \* ers
    <<"i", "g", "n", "i", "t", "i", "o", "n">>,    \* ignition
    <<"w", "a", "t", "e", "r", " ", "p", "r", "e", "s", "s", "u", "r", "e">>,    \* water pressure
    <<"t", "h", "r", "o", "t", "t", "l", "e">>,    \* throttle
    <<"w", "h", "e", "e", "l">>,    \* wheel
    <<"p", "u", "n", "c", "t", "u", "r", "e">>,    \* puncture
    <<"t", "y", "r", "e">>,    \* tyre
    <<"c", "o", "o", "l", "i", "n", "g">>    \* cooling
}

\* causes the code also takes for non-mechanical
MoreNonMech == {
    <<"b", "l", "a", "c", "k", " ", "f", "l", "a", "g">>,    \* black flag
    <<"i", "l", "l", "n", "e", "s", "s">>    \* illness
}

\* keywords the code also takes for mechanical
MoreMech == {
    <<"r", "e", "t", "i", "r", "e", "d">>,    \* retired
    <<"m", "e", "c", "h", "a", "n", "i", "c", "a", "l">>,    \* mechanical
    <<"p", "o", "w", "e", "r", " ", "u", "n", "i", "t">>,    \* power unit
    <<"h", "y", "d", "r", "a", "u", "l">>    \* hydraul
}

ContainsAny(text, terms) == \E term \in terms : Contains(ToLower(text), term)

\* position_text equals "R", blanks around it and case left aside as the code does
IsR(position_text) == ToLower(Strip(OrEmpty(position_text))) = ToLower(P_R)

\* C4 (as claimed): the result is true exactly when the status holds no finish marker
\* and none of the listed non-mechanical causes, and position_text is "R" or the status
\* holds one of the listed mechanical keywords.
C4_ClassifierIff ==
    dnf.pc = "done" =>
        (dnf.result <=>
            /\ ~ContainsAny(OrEmpty(dnf.status), FinishMarkers)
            /\ ~ContainsAny(OrEmpty(dnf.status), ClaimNonMech)
            /\ \/ IsR(dnf.position_text)
               \/ ContainsAny(OrEmpty(dnf.status), ClaimMech))

\* C4 (amended): as claimed, with "black flag" and "illness" among the non-mechanical
\* causes and with "retired", "mechanical", "power unit" and "hydraul" among the
\* mechanical keywords.
C4_ClassifierIffAmended ==
    dnf.pc = "done" =>
        (dnf.result <=>
            /\ ~ContainsAny(OrEmpty(dnf.status), FinishMarkers)
            /\ ~ContainsAny(OrEmpty(dnf.status), ClaimNonMech \cup MoreNonMech)
            /\ \/ IsR(dnf.position_text)
               \/ ContainsAny(OrEmpty(dnf.status), ClaimMech \cup MoreMech))

\* "Mechanical" with a position text other than "R" has been classified as mechanical
C4_Witness ==
    /\ dnf.pc = "done"
    /\ dnf.status = S_Mechanical
    /\ dnf.position_text = P_12
    /\ dnf.result

\* C5: ("Accident", "R") -> false; ("Retired", "R") -> true; "Finished" -> false;
\* ("Gearbox", "R") -> true; "Disqualified" -> false, the last two for any position text.
C5_ClassifierExamples ==
    dnf.pc = "done" =>
        /\ (dnf.status = S_Accident /\ dnf.position_text = P_R) => ~dnf.result
        /\ (dnf.status = S_Retired /\ dnf.position_text = P_R) => dnf.result
        /\ dnf.status = S_Finished => ~dnf.result
        /\ (dnf.status = S_Gearbox /\ dnf.position_text = P_R) => dnf.result
        /\ dnf.status = S_Disqualified => ~dnf.result

\* ("Accident", "R") has been classified
C5_Witness ==
    /\ dnf.pc = "done"
    /\ dnf.status = S_Accident
    /\ dnf.position_text = P_R
    /\ ~dnf.result

(***************************************************************************)
(* Properties of the season statistics (checked under SpecStats).          *)
(***************************************************************************)
\* the rounds the calendar dates later than today
FutureRounds ==
    {season.races[k].round :
        k \in {j \in 1..Len(season.races) : _parse_iso(season.races[j].date) > Today}}

\* a payload's race records without those of the future rounds
RECURSIVE WithoutFuture(_)
WithoutFuture(table) ==
    IF table = <<>> THEN <<>>
    ELSE (IF Head(table).round \in FutureRounds THEN <<>> ELSE <<Head(table)>>)
         \o WithoutFuture(Tail(table))

\* some record of the table holds result rows for a future round
HasFutureRows(table) ==
    \E k \in 1..Len(table) : table[k].round \in FutureRounds /\ table[k].rows # <<>>

DriverItems(calOk, table) == CompletedItems(Calendar(calOk), table, view.driver_id)
TeamRaces(calOk, table) == CountedRaces(Calendar(calOk), table)

GpComputed == view.pc \in {"sp", "done"}
SprintComputed == view.pc = "done"

\* C6: in driver_detail and in constructor_detail, for the Grand Prix and the
\* sprint statistics alike, no round the calendar dates later than today is among the
\* rounds counted, and every count is what it would be had the upstream returned no
\* result rows for the future rounds at all.
C6_FutureRacesNeverCount ==
    /\ GpComputed =>
         /\ view.gpRounds \cap FutureRounds = {}
         /\ view.fn = "driver_detail" =>
              LET items == DriverItems(view.gpCalOk, WithoutFuture(view.gpTable))
              IN  view.gp = GpStats(Len(items), items)
         /\ view.fn = "constructor_detail" =>
              LET counted == TeamRaces(view.gpCalOk, WithoutFuture(view.gpTable))
              IN  view.gp = GpStats(Len(counted), RowsOf(counted))
    /\ SprintComputed =>
         /\ view.spRounds \cap FutureRounds = {}
         /\ view.fn = "driver_detail" =>
              LET items == DriverItems(view.spCalOk, WithoutFuture(view.spTable))
              IN  view.sp = SprintStats(Len(items), items)
         /\ view.fn = "constructor_detail" =>
              LET counted == TeamRaces(view.spCalOk, WithoutFuture(view.spTable))
              IN  view.sp = SprintStats(Len(counted), RowsOf(counted))

\* a constructor page is done whose loaded results and sprints hold rows for a future
\* round, next to completed rounds that were counted
C6_Witness ==
    /\ view.pc = "done"
    /\ view.fn = "constructor_detail"
    /\ HasFutureRows(view.gpTable)
    /\ HasFutureRows(view.spTable)
    /\ view.gp.entered > 0
    /\ view.sp.entered > 0

\* the same for a driver page
C6_WitnessDriver ==
    /\ view.pc = "done"
    /\ view.fn = "driver_detail"
    /\ HasFutureRows(view.gpTable)
    /\ HasFutureRows(view.spTable)
    /\ view.gp.entered > 0
    /\ view.sp.entered > 0

\* the results were loaded without a failed request and the calendar was fetched
HealthyGp ==
    /\ view.gpCalOk
    /\ view.gpTable # <<>>
    /\ SumRows(view.gpTable) = Len(season.rows)

\* C7: for a season of three completed and two future races in which the driver
\* finishes first, third and retires with an engine failure, driver_detail computes
\* wins = 1, podiums = 2, mechanical DNFs = 1 and entered = 3 (every request having
\* succeeded).
C7_EndToEnd ==
    (/\ GpComputed
     /\ view.fn = "driver_detail"
     /\ season \in ScenarioSeasons
     /\ HealthyGp)
    => /\ view.gp.wins = 1
       /\ view.gp.podiums = 2
       /\ view.gp.dnfs = 1
       /\ view.gp.entered = 3

\* the scenario's statistics come out as claimed when no round is cut by a page end
C7_ScenarioReached ==
    /\ GpComputed
    /\ view.fn = "driver_detail"
    /\ season \in ScenarioSeasons
    /\ HealthyGp
    /\ view.gp.wins = 1
    /\ view.gp.podiums = 2
    /\ view.gp.dnfs = 1
    /\ view.gp.entered = 3

(***************************************************************************)
(* The pagination loop against an upstream that may answer a request with  *)
(* the page of an earlier offset (a stale copy kept by a cache in front of *)
(* the API): what the loop does with the offset the response reports.      *)
(***************************************************************************)
MaxMerged == 4         \* race records a merged payload holds, at most, in SpecPaging

\* the pages the upstream may answer the next request of handler h with
StalePages(h) ==
    {UpstreamPage(ld[h].resource, upTotal, ld[h].per_page, f) : f \in 0..ld[h].offset}

PagingResources == {"results", "driverstandings"}

YearPageAny(h) ==
    \E body \in StalePages(h) : \E o \in Outcomes(body) : LoadYearPage(h, o)

CollectionPageAny(h) ==
    \E body \in StalePages(h) : \E o \in Outcomes(body) : LoadCollectionPage(h, o)

InitPaging ==
    /\ InitCommon
    /\ upTotal \in 0..MaxTotal
    /\ season = DefaultSeason

NextPaging ==
    \/ \E r \in PagingResources, pp \in PerPages : LoadYearCall(1, r, pp)
    \/ \E r \in PagingResources, pp \in PerPages : LoadCollectionCall(1, r, pp)
    \/ Len(ld[1].merged.table) < MaxMerged /\ YearPageAny(1)
    \/ Len(ld[1].merged.table) < MaxMerged /\ CollectionPageAny(1)

\* the loop runs on as long as it has not ended: a page request is always answered
SpecPaging ==
    /\ InitPaging
    /\ [][NextPaging]_vars
    /\ WF_vars(YearPageAny(1))
    /\ WF_vars(CollectionPageAny(1))

\* a load that ends does so on a response with offset + limit >= total or total = 0, one
\* that goes on does so on a response without, and a load that ended sends nothing more
StopRule ==
    [][\A h \in Handlers :
          /\ (ld[h].pc = "loading" /\ ld'[h] # ld[h]) =>
                (ld'[h].pc = "done" <=>
                    (ld'[h].offset >= ld'[h].total \/ ld'[h].total = 0))
          /\ (ld[h].pc = "done" /\ calls' = calls) => ld'[h] = ld[h]]_vars

\* C11: every load terminates: a load that is running has, some finite number of page
\* requests later, ended, whatever pages the upstream answers with.
C11_LoadTerminates ==
    \A h \in Handlers : (ld[h].pc = "loading") ~> (ld[h].pc # "loading")

(***************************************************************************)
(* Two request handlers (threads of the server) load at the same time: the *)
(* steps of their loader calls interleave, each with its own merged, over  *)
(* the one _RESULTS_CACHE.                                                 *)
(***************************************************************************)
NextConc ==
    \/ \E h \in Handlers : \E r \in Asked(YearFn, PagingResources), pp \in PerPages :
          LoadYearCall(h, r, pp)
    \/ \E h \in Handlers : \E o \in Outcomes(NextBody(h)) : LoadYearPage(h, o)
    \/ Tick

SpecConc == Init /\ [][NextConc]_vars

\* the row indices a payload holds, in order
RECURSIVE FlatRows(_)
FlatRows(table) ==
    IF table = <<>> THEN <<>> ELSE Head(table).rows \o FlatRows(Tail(table))

\* h ends its load in this step
LoadEnds(h) == ld[h].pc = "loading" /\ ld'[h].pc = "done"

\* C12: whatever the interleaving of two handlers, an entry of the cache changes only
\* by the store that ends a load of its key, and is then exactly that load's payload
\* with the time of the store; and a load of "results" that ended without a failed
\* request returns all rows of the collection once, in order: its own pages and no others.
C12_LastWriteWins ==
    [][/\ \A k \in Keys :
             cache'[k] # cache[k] =>
                \E h \in Handlers :
                    /\ LoadEnds(h)
                    /\ KeyOf(ld[h]) = k
                    /\ cache'[k] = [present |-> TRUE, ts |-> now, data |-> ld'[h].ret]
       /\ \A h \in Handlers :
             (LoadEnds(h) /\ ld'[h].resource = "results" /\ ~ld'[h].failed) =>
                FlatRows(ld'[h].ret.table) = Interval(1, upTotal)]_vars

\* both handlers missed on the same key and loaded; handler 1 stored first and got a
\* partial payload, handler 2 stored last, and the entry is handler 2's payload
C12_Witness ==
    /\ ld[1].pc = "done" /\ ld[2].pc = "done"
    /\ KeyOf(ld[1]) = KeyOf(ld[2])
    /\ ld[1].found = "absent" /\ ld[2].found = "absent"
    /\ ld[1].reqs > 0 /\ ld[2].reqs > 0
    /\ ld[1].ret # ld[2].ret
    /\ ~ld[2].failed
    /\ cache[KeyOf(ld[2])].data = ld[2].ret
    /\ cache[KeyOf(ld[2])].ts = now
    /\ now > 0

(***************************************************************************)
(* Properties of api_health (checked under SpecHealth).                    *)
(***************************************************************************)
\* the probe's answer counts as healthy: a total that is a number above 0
Healthy(resp) == resp.total # NotANumber /\ resp.total # Absent /\ resp.total > 0

\* C13: API_DEGRADED is true exactly when the probe result in the cache is false, and
\* that result is false exactly when the probe got no total above 0 (the client's
\* sentinel included); a call less than 15 seconds after a probe sends no probe and
\* returns the signal of that probe.
C13_HealthSignal ==
    [][health'.called /\ health' # health /\ health'.t = health.t =>
          /\ health'.degraded = ~health'.value
          /\ health'.present
          /\ health'.value = Healthy(health'.resp)
          /\ (health.called /\ health.t - health.probeAt < 15) =>
                /\ ~health'.probed
                /\ health'.resp = health.resp
                /\ health'.degraded = ~Healthy(health.resp)
          /\ health'.probed => health'.probeAt = health.t]_vars

\* a call 14 seconds after a probe that got the sentinel: no probe, still degraded
C13_Witness ==
    /\ health.called
    /\ ~health.probed
    /\ health.t - health.probeAt = 14
    /\ health.resp = Sentinel
    /\ health.degraded

(***************************************************************************)
(* Properties of the page views (checked under SpecPages).                 *)
(***************************************************************************)
SeasonPages == {"schedule_year", "results_season", "standings_drivers",
                "standings_constructors", "results_year_hub"}

\* the view got an empty list: no races, or no standings list (view.base holds the length)
SeasonDataMissing == view.fn \in SeasonPages /\ view.base = 0

\* C14: a season page whose list of races (schedule_year, results_season) or whose
\* standings list (standings_drivers, standings_constructors, results_year_hub) is
\* empty ends in Http404.
C14_MissingDataIsNotFound ==
    SeasonDataMissing => view.pc = "Http404"

\* the four views that do answer an empty list with Http404
C14_FourViewsNotFound ==
    (SeasonDataMissing /\ view.fn # "results_season") => view.pc = "Http404"

\* the upstream is failing: the view's requests and the last probe all got the sentinel
UpstreamFailing ==
    /\ view.fn \in SeasonPages
    /\ view.failed
    /\ health.called => health.resp = Sentinel

\* C15: when every request gets the sentinel, the page is rendered, not answered with
\* Http404, and it carries the API-degraded advisory.
C15_DegradedNotError ==
    UpstreamFailing => (view.pc = "rendered" /\ health.called /\ health.degraded)

\* results_season does so: rendered empty, with the advisory
C15_ResultsSeasonDegraded ==
    /\ UpstreamFailing
    /\ view.fn = "results_season"
    /\ view.pc = "rendered"
    /\ view.shown = 0
    /\ health.degraded

(***************************************************************************)
(* The cache and the callers of _load_year_collection, one request handler *)
(* at a time: _gp_results_for_driver_completed and                         *)
(* _sprint_results_for_driver_completed are called again and again while   *)
(* time passes, so that entries are created, hit, and replaced on expiry.  *)
(***************************************************************************)
GpFn == "_gp_results_for_driver_completed"
SprintFn == "_sprint_results_for_driver_completed"

\* the seasons of SpecOwn: every race dated today and of one pattern, the calendar in
\* ascending order
OwnSeasons ==
    {MakeSeason([k \in 1..MaxRounds |-> IsoDate(Today)], [k \in 1..MaxRounds |-> pat], TRUE) :
        pat \in RacePatterns}

\* lines 525-526 (568-569): the function is entered
ResultsCall(fn, driver_id) ==
    /\ view.pc \in {"idle", "returned"}
    /\ calls < MaxCalls
    /\ view' = [ViewIdle EXCEPT !.pc = "reading", !.fn = fn, !.driver_id = driver_id,
                                !.base = calls]
    /\ UNCHANGED <<client, cache, now, upTotal, ld, calls, dnf, season, health, auction, network, wiki>>

\* lines 528 (571): its call of the loader
ResultsLoad(fn, resource) ==
    /\ view.pc = "reading"
    /\ view.fn = fn
    /\ calls = view.base
    /\ LoadYearCall(1, resource, PerPageDefault)

\* lines 529-560 (572-600): the items are picked from the payload the loader returned
ResultsReturn(calOk) ==
    /\ view.pc = "reading"
    /\ calls = view.base + 1
    /\ ld[1].pc = "done"
    /\ LET table == ld[1].ret.table
           items == CompletedItems(Calendar(calOk), table, view.driver_id)
       IN  view' = [view EXCEPT !.pc = "returned", !.gpCalOk = calOk, !.gpTable = table,
                                !.gpRounds = RoundsOf(items), !.shown = Len(items)]
    /\ UNCHANGED <<client, cache, now, upTotal, ld, calls, dnf, season, health, auction, network, wiki>>

InitOwn ==
    /\ InitCommon
    /\ season \in OwnSeasons
    /\ upTotal = Len(season.rows)

NextOwn ==
    \/ ResultsCall(GpFn, D_Max)
    \/ ResultsCall(SprintFn, D_Max)
    \/ ResultsLoad(GpFn, "results")
    \/ ResultsLoad(SprintFn, "sprint")
    \/ \E o \in Outcomes(NextBody(1)) : LoadYearPage(1, o)
    \/ \E ok \in BOOLEAN : ResultsReturn(ok)
    \/ Tick

SpecOwn == InitOwn /\ [][NextOwn]_vars

\* C16: an entry of the cache changes only in the step that ends a load of its key, and
\* then as a whole: the new payload is the one that load merged, the time is the time of
\* the store; a load changes its merged payload no more once it has stored it; and a
\* caller picking its items from the payload it received changes neither the cache nor
\* the payload.
C16_PayloadsImmutable ==
    [][/\ \A k \in Keys :
             cache'[k] # cache[k] =>
                /\ ld[1].pc = "loading" /\ ld'[1].pc = "done" /\ KeyOf(ld[1]) = k
                /\ cache'[k].data = ld'[1].merged
                /\ cache'[k].ts = now
                /\ cache'[k].present
       /\ (ld[1].pc = "done" /\ calls' = calls) => ld'[1] = ld[1]
       /\ view'.pc = "returned" => (cache' = cache /\ ld' = ld)]_vars

\* a caller has picked items from the payload of a refresh: the entry it found had expired
\* and now holds the payload and the time of the new load
C16_Witness ==
    /\ view.pc = "returned"
    /\ view.shown > 0
    /\ ld[1].found = "expired"
    /\ ld[1].reqs > 1
    /\ cache[KeyOf(ld[1])].data = ld[1].ret
    /\ cache[KeyOf(ld[1])].ts > _CACHE_TTL
    /\ view.gpTable = ld[1].ret.table

(***************************************************************************)
(* The order of the page requests of one load.                             *)
(***************************************************************************)
\* h enters the pagination loop in this step: its first request is the next thing it does
LoopBegins(h) == ld[h].pc # "loading" /\ ld'[h].pc = "loading"

\* h takes in a response in this step and goes on to a further request
LoopGoesOn(h) == ld[h].pc = "loading" /\ ld'[h].pc = "loading" /\ ld'[h] # ld[h]

\* the first request asks for offset 0; a step of the loop takes in exactly one response,
\* the one to the request sent last, and the next request asks for that response's
\* offset + limit
OffsetRule ==
    [][\A h \in Handlers :
          /\ LoopBegins(h) => (ld'[h].offset = 0 /\ ld'[h].reqs = 0)
          /\ LoopGoesOn(h) =>
                /\ ld'[h].reqs = Sent(ld[h].reqs)
                /\ \E body \in StalePages(h) :
                      /\ ld'[h].offset = body.offset + body.limit
                      /\ ld'[h].merged
                            = IF ld[h].fn = "_load_collection"
                              THEN MergeCollectionPage(ld[h].has, ld[h].merged, body)
                              ELSE MergeYearPage(ld[h].resource, ld[h].has,
                                                 ld[h].merged, body)]_vars

\* C17: the page requests of a load are sent one after another, the first with offset 0,
\* each later one with the offset + limit the previous response reported, and each later
\* one with an offset greater than the one before.
C17_SequentialPaging ==
    [][\A h \in Handlers :
          /\ LoopBegins(h) => (ld'[h].offset = 0 /\ ld'[h].reqs = 0)
          /\ LoopGoesOn(h) =>
                /\ ld'[h].reqs = Sent(ld[h].reqs)
                /\ \E body \in StalePages(h) : ld'[h].offset = body.offset + body.limit
                /\ ld'[h].offset > ld[h].offset]_vars

\* a load has sent a request with the offset of the request before it
C17_OffsetRepeated ==
    \E h \in Handlers :
        /\ ld[h].pc = "loading"
        /\ ld[h].reqs >= 2
        /\ ld[h].offset = 1

(***************************************************************************)
(* The merge of _load_year_collection.                                     *)
(***************************************************************************)
\* the resources whose pages are appended (lines 69-76)
AppendedResources == {"results", "sprint", "drivers", "races"}

\* h takes a page into merged in this step of _load_year_collection
YearPageStep(h) ==
    /\ ld[h].pc = "loading"
    /\ ld[h].fn = YearFn
    /\ ld'[h].pc \in {"loading", "done"}
    /\ ld'[h] # ld[h]

StopAt(races) ==
    LET ks == {k \in 1..Len(races) : NotCompleted(races[k].date)}
    IN  IF ks = {} THEN Len(races) + 1 ELSE CHOOSE k \in ks : \A j \in ks : k <= j

\* the merged results hold a result row of the driver for the round
HoldsRowOf(table, rnd, driver_id) ==
    \E k \in 1..Len(table) :
        /\ table[k].round = rnd
        /\ \E j \in 1..Len(table[k].rows) :
              ToLower(season.rows[table[k].rows[j]].driverId) = ToLower(driver_id)

\* C19: the calendar walked by the driver statistics is in ascending round order; no race
\* at or after the first race dated in the future, or not dated, contributes an item; and
\* every race before it for which the merged results hold a row of the driver contributes
\* exactly one item.
C19_WalkStopsAtFirstFuture ==
    (GpComputed /\ view.fn = "driver_detail") =>
        LET races == Calendar(view.gpCalOk)
            stop == StopAt(races)
            earlier == {k \in 1..(stop - 1) :
                           HoldsRowOf(view.gpTable, races[k].round, view.driver_id)}
        IN  /\ \A i, j \in 1..Len(races) : i < j => races[i].round < races[j].round
            /\ \A k \in stop..Len(races) : races[k].round \notin view.gpRounds
            /\ view.gpRounds = {races[k].round : k \in earlier}
            /\ view.gp.entered = Cardinality(earlier)

\* the claim but for the races whose rows the merged results hold in several records: a
\* race before the stop contributes one item when the last record of its round holds a row
\* of the driver, and none otherwise
WalkOfLastRecords ==
    (GpComputed /\ view.fn = "driver_detail") =>
        LET races == Calendar(view.gpCalOk)
            stop == StopAt(races)
            earlier == {k \in 1..(stop - 1) :
                           HoldsRowOf(<<by_round(view.gpTable, races[k].round)>>,
                                      races[k].round, view.driver_id)}
        IN  /\ \A i, j \in 1..Len(races) : i < j => races[i].round < races[j].round
            /\ \A k \in stop..Len(races) : races[k].round \notin view.gpRounds
            /\ view.gpRounds = {races[k].round : k \in earlier}
            /\ view.gp.entered = Cardinality(earlier)

\* the walk stopped before the end of the calendar, with items counted before the stop
C19_StoppedEarly ==
    /\ GpComputed
    /\ view.fn = "driver_detail"
    /\ view.gpCalOk
    /\ StopAt(Calendar(TRUE)) <= Len(season.races)
    /\ view.gp.entered > 0

(***************************************************************************)
(* The counters of the detail views over rows of every kind: fractional    *)
(* points, rows without points, position or grid, wins from off the pole.  *)
(***************************************************************************)
MaxItems == 3          \* rounds of a season of SpecTally, at most

P_2 == <<"2">>
P_4 == <<"4">>
Second == [position |-> 2, positionText |-> P_2, grid |-> 1, points |-> 180,
           status |-> S_Finished]
ThirdAndHalf == [position |-> 3, positionText |-> P_3, grid |-> 4, points |-> 155,
                 status |-> S_Finished]
Fourth == [position |-> 4, positionText |-> P_4, grid |-> 3, points |-> 120,
           status |-> S_Finished]
HalfWin == [position |-> 1, positionText |-> P_1, grid |-> 2, points |-> 125,
            status |-> S_Finished]
Bare == [position |-> Absent, positionText |-> NoneText, grid |-> Absent,
         points |-> Absent, status |-> NoneText]

TallyProfiles == {Win, Second, ThirdAndHalf, Fourth, HalfWin, MechDnf, Bare}

\* seasons of completed races in each of which the driver has one row
TallySeasons ==
    UNION {{MakeSeason([k \in 1..n |-> IsoDate(Today)],
                       [k \in 1..n |-> <<Entry(D_max, p[k])>>], TRUE) :
               p \in [1..n -> TallyProfiles]} : n \in 1..MaxItems}

InitTally ==
    /\ InitCommon
    /\ season \in TallySeasons
    /\ upTotal = Len(season.rows)

NextTally ==
    \/ \E found \in BOOLEAN : DriverDetailCall(D_Max, found)
    \/ \E ok \in BOOLEAN : DriverGpStats(ok)
    \/ \E ok \in BOOLEAN : DriverSprintStats(ok)
    \/ \E ok \in BOOLEAN : ConstructorDetailCall(ok)
    \/ ConstructorGpStats
    \/ ConstructorSprintStats
    \/ ViewLoaderNext

SpecTally == InitTally /\ [][NextTally]_vars

\* the rows of the rounds counted (the driver has one row a round in SpecTally)
RowsCounted(rounds) == {i \in 1..Len(season.rows) : season.rows[i].round \in rounds}

\* the sum of the point values of a set of rows, in tenths, a row without points adding 0
RECURSIVE TenthsOf(_)
TenthsOf(S) ==
    IF S = {} THEN 0
    ELSE LET i == CHOOSE j \in S : TRUE
         IN  (IF season.rows[i].points = Absent THEN 0 ELSE season.rows[i].points)
             + TenthsOf(S \ {i})

\* C20: over the completed rows of the driver, wins is the number of rows with position 1,
\* podiums the number with a position of at most 3, poles the number with grid 1, and
\* points the sum of the rows' points, halves and tenths included, a row without points
\* adding 0 (25 + 18 + 15.5 = 58.5); constructor_detail counts the rows of the team's
\* completed races in the same way.
C20_DriverTallies ==
    /\ GpComputed =>
          LET S == RowsCounted(view.gpRounds)
          IN  /\ view.gp.entered = Cardinality(S)
              /\ view.gp.wins = Cardinality({i \in S : season.rows[i].position = 1})
              /\ view.gp.podiums
                    = Cardinality({i \in S : season.rows[i].position \in 1..3})
              /\ view.gp.poles = Cardinality({i \in S : season.rows[i].grid = 1})
              /\ view.gp.points = TenthsOf(S)
              /\ {season.rows[i].points : i \in S} = {250, 180, 155} /\ Cardinality(S) = 3
                    => view.gp.points = 585
    /\ SprintComputed =>
          LET S == RowsCounted(view.spRounds)
          IN  /\ view.sp.wins = Cardinality({i \in S : season.rows[i].position = 1})
              /\ view.sp.podiums
                    = Cardinality({i \in S : season.rows[i].position \in 1..3})
              /\ view.sp.points = TenthsOf(S)

\* the page of a driver with rows of 25, 18 and 15.5 points shows 58.5 points, and the
\* page of a driver with a row without points has counted that row
C20_Witness ==
    /\ view.pc = "done"
    /\ view.fn = "driver_detail"
    /\ view.gp.entered = 3
    /\ {season.rows[i].points : i \in 1..Len(season.rows)} = {250, 180, 155}
    /\ view.gp.points = 585
    /\ view.gp.wins = 1
    /\ view.gp.podiums = 3
    /\ view.gp.poles = 2

\* a row without points, position and grid was counted as a race entered and nothing else
C20_WitnessBare ==
    /\ view.pc = "done"
    /\ view.fn = "driver_detail"
    /\ view.gp.entered = 2
    /\ \E i \in RowsCounted(view.gpRounds) : season.rows[i].points = Absent
    /\ view.gp.points = 125
    /\ view.gp.wins = 1
    /\ view.gp.poles = 0

(***************************************************************************)
(* The order of the calendar and the per-round lookup.                     *)
(***************************************************************************)
\* the records of the table for the round
RecordsOf(table, rnd) == {k \in 1..Len(table) : table[k].round = rnd}

\* C21: the list _season_races_ordered returns is in ascending round order with no round
\* twice, and the lookup by_round gives, for every round the merged results hold a record
\* of, one record of the merged results, of that round; no round is counted twice.
C21_RoundsOrderedUnique ==
    (GpComputed /\ view.fn = "driver_detail") =>
        LET races == Calendar(view.gpCalOk)
            table == view.gpTable
        IN  /\ \A i, j \in 1..Len(races) : i < j => races[i].round < races[j].round
            /\ view.gpCalOk => Len(races) = Len(season.races)
            /\ \A k \in 1..Len(table) :
                  \E j \in RecordsOf(table, table[k].round) :
                      by_round(table, table[k].round) = table[j]
            /\ view.gp.entered = Cardinality(view.gpRounds)

\* the calendar came in descending order, the merged results hold two records of one
\* round, and the driver's rows were counted
C21_Witness ==
    /\ GpComputed
    /\ view.fn = "driver_detail"
    /\ view.gpCalOk
    /\ Len(season.races) >= 2
    /\ season.races[1].round > season.races[2].round
    /\ \E k \in 1..Len(view.gpTable) :
          Cardinality(RecordsOf(view.gpTable, view.gpTable[k].round)) = 2
    /\ view.gp.entered > 0

\* C22: every round before the stop of the walk for which the merged results hold a row of
\* the driver, in whichever record of the round, has an item among those returned; a
\* round whose rows came in two records loses no row of the driver.
C22_NoDriverRowLost ==
    (GpComputed /\ view.fn = "driver_detail") =>
        LET races == Calendar(view.gpCalOk)
        IN  \A k \in 1..(StopAt(races) - 1) :
                HoldsRowOf(view.gpTable, races[k].round, view.driver_id)
                    => races[k].round \in view.gpRounds

\* the results were loaded without a failed request, a completed round has two records in
\* the merged results, the driver's row in the first, and the round has no item
C22_SplitRoundLost ==
    /\ GpComputed
    /\ view.fn = "driver_detail"
    /\ HealthyGp
    /\ \E k \in 1..Len(view.gpTable) :
          LET rnd == view.gpTable[k].round
          IN  /\ Cardinality(RecordsOf(view.gpTable, rnd)) = 2
              /\ HoldsRowOf(<<view.gpTable[k]>>, rnd, view.driver_id)
              /\ rnd \notin view.gpRounds
              /\ \E j \in 1..(StopAt(Calendar(TRUE)) - 1) : Calendar(TRUE)[j].round = rnd

(***************************************************************************)
(* A failed page request in _load_year_collection.                         *)
(***************************************************************************)
\* the page h takes in in this step is the client's sentinel
PageFails(h) == YearPageStep(h) /\ ld'[h].lastFailed

\* the call h makes in this step follows a load of the same key that ended on a failed
\* page, no more than the TTL ago
CallAfterFailure(h) ==
    /\ YearCallStep(h)
    /\ ld[h].pc = "done"
    /\ ld[h].fn = YearFn
    /\ ld[h].lastFailed
    /\ KeyOf(ld'[h]) = KeyOf(ld[h])
    /\ now - cache[KeyOf(ld[h])].ts <= _CACHE_TTL

\* what a load that ends on a failed page returns, stores and serves again, kept being
\* the payload it is claimed to keep
FailedPageRule(h, kept) ==
    /\ PageFails(h) =>
          /\ ld'[h].pc = "done"
          /\ ld'[h].ret = (IF ld[h].has THEN kept ELSE Sentinel)
          /\ cache'[KeyOf(ld[h])]
                = [present |-> TRUE, ts |-> now, data |-> ld'[h].ret]
    /\ CallAfterFailure(h) =>
          /\ ld'[h].pc = "done"
          /\ ld'[h].reqs = 0
          /\ ld'[h].ret = ld[h].ret
          /\ cache' = cache

C23_ServedAgain ==
    /\ ld[1].pc = "done"
    /\ ld[1].fn = YearFn
    /\ ld[1].resource = "results"
    /\ ld[1].found = "fresh"
    /\ ld[1].reqs = 0
    /\ ld[1].ret = cache[KeyOf(ld[1])].data
    /\ ld[1].ret.table # <<>>
    /\ ld[1].ret.total = upTotal
    /\ SumRows(ld[1].ret.table) < upTotal

\* C24: on every driver page the Grand Prix counters satisfy wins <= podiums <= top10 <=
\* entered, poles <= entered and dnfs <= entered, and the sprint counters wins <= podiums
\* <= top8 <= entered.
C24_CountersOrdered ==
    /\ (GpComputed /\ view.fn = "driver_detail") =>
          /\ 0 <= view.gp.wins
          /\ view.gp.wins <= view.gp.podiums
          /\ view.gp.podiums <= view.gp.top10
          /\ view.gp.top10 <= view.gp.entered
          /\ view.gp.poles \in 0..view.gp.entered
          /\ view.gp.dnfs \in 0..view.gp.entered
    /\ (SprintComputed /\ view.fn = "driver_detail") =>
          /\ 0 <= view.sp.wins
          /\ view.sp.wins <= view.sp.podiums
          /\ view.sp.podiums <= view.sp.top8
          /\ view.sp.top8 <= view.sp.entered

\* a driver page on which every inequality of the chain is strict, with a retirement
C24_Witness ==
    /\ view.pc = "done"
    /\ view.fn = "driver_detail"
    /\ view.gp.wins < view.gp.podiums
    /\ view.gp.podiums < view.gp.top10
    /\ view.gp.top10 < view.gp.entered
    /\ view.gp.dnfs > 0
    /\ view.sp.podiums < view.sp.top8
    /\ view.sp.top8 < view.sp.entered

(***************************************************************************)
(* The auctions application: requests handled one at a time (SpecAuction)  *)
(* and requests whose database operations interleave (SpecAuctionRace).    *)
(***************************************************************************)
InitAuction ==
    /\ InitF1
    /\ upTotal = 0
    /\ season = DefaultSeason
    /\ auction \in {[AuctionIdle EXCEPT !.starting_bid = s] : s \in 1..2}
    /\ network = NetworkIdle
    /\ wiki = WikiIdle

\* the next database operation of request i
AuctionStep(i) ==
    \/ \E u \in Users, m \in Methods :
          \E a \in (IF m = "POST" THEN 0..MaxAmount ELSE {0}) : PlaceBidRead(i, u, m, a)
    \/ PlaceBidPrice(i)
    \/ PlaceBidCreate(i)
    \/ \E u \in Users, m \in Methods : AuctionCloseRead(i, u, m)
    \/ AuctionCloseSave(i)

\* requests handled one at a time: the database operations of one request at a time
NextAuction == AuctionStep(1)

SpecAuction == InitAuction /\ [][NextAuction]_vars

NextAuctionRace == \E i \in Requests : AuctionStep(i)

SpecAuctionRace == InitAuction /\ [][NextAuctionRace]_vars

\* the highest amount among the bids, the starting bid when there is none
HighestOr(bids, starting_bid) ==
    IF bids = <<>> THEN starting_bid
    ELSE CHOOSE a \in {bids[k].amount : k \in 1..Len(bids)} :
            \A k \in 1..Len(bids) : bids[k].amount <= a

Increasing(bids) == \A j, k \in 1..Len(bids) : j < k => bids[j].amount < bids[k].amount

\* request i ends in this step with the response
Ends(i, response) ==
    /\ ~Finished(i)
    /\ auction'.req[i].pc = "done"
    /\ auction'.req[i].response = response

\* C25: with requests handled one at a time, the bids change only by one Bid being added,
\* by a place_bid request, with that request's amount, which is at least the starting bid
\* and greater than the current price; the amounts are increasing in creation order, the
\* current price never decreases, and a request answered with a form error has created
\* no Bid.
C25_BidsIncrease ==
    [][LET b == auction.bids
           b2 == auction'.bids
       IN  /\ b2 # b =>
                \E i \in Requests :
                    /\ auction.req[i].handler = "place_bid"
                    /\ auction.req[i].method = "POST"
                    /\ b2 = Append(b, [amount |-> auction.req[i].amount,
                                       bidder |-> auction.req[i].user])
                    /\ auction.req[i].amount >= auction.starting_bid
                    /\ auction.req[i].amount > HighestOr(b, auction.starting_bid)
           /\ Increasing(b2)
           /\ HighestOr(b2, auction.starting_bid) >= HighestOr(b, auction.starting_bid)
           /\ \A i \in Requests :
                 Ends(i, "errors") =>
                    (b2 = b /\ Len(b2) = auction.req[i].bids0)]_vars

\* two bids have been created and a bid that does not exceed the second was rejected
C25_Witness ==
    /\ Len(auction.bids) >= 2
    /\ \E i \in Requests :
          /\ auction.req[i].pc = "done"
          /\ auction.req[i].handler = "place_bid"
          /\ auction.req[i].response = "errors"
          /\ auction.req[i].amount = auction.bids[2].amount
          /\ auction.req[i].current_price = auction.bids[2].amount

\* C26: when the database operations of place_bid and auction_close requests interleave,
\* every Bid created is greater than all the bids created before it on the listing, and
\* no Bid is created while the listing is closed.
C26_RaceKeepsOrder ==
    [][auction'.bids # auction.bids =>
          /\ Len(auction'.bids) = Len(auction.bids) + 1
          /\ \A k \in 1..Len(auction.bids) :
                auction.bids[k].amount < auction'.bids[Len(auction'.bids)].amount
          /\ auction.is_active]_vars

\* a Bid was created that does not exceed a bid created before it
C26_LowerBidCreated == ~Increasing(auction.bids)

\* the listing without the requests
ListingOf(a) == [owner |-> a.owner, starting_bid |-> a.starting_bid,
                 is_active |-> a.is_active, bids |-> a.bids]

\* C27: with requests handled one at a time, is_active changes only from true to false
\* and only in a POST to auction_close by the listing's owner; a step of an auction_close
\* request by another user or by GET leaves the listing as it is; and while the listing is
\* closed it stays closed and no Bid is created.
C27_CloseIsFinal ==
    [][/\ auction'.is_active # auction.is_active =>
             /\ auction.is_active
             /\ ~auction'.is_active
             /\ \E i \in Requests :
                   /\ auction.req[i].handler = "auction_close"
                   /\ auction.req[i].method = "POST"
                   /\ auction.req[i].user = auction.owner
       /\ \A i \in Requests :
             (/\ auction'.req[i] # auction.req[i]
              /\ auction'.req[i].handler = "auction_close"
              /\ (auction'.req[i].method # "POST" \/ auction'.req[i].user # auction.owner))
                => ListingOf(auction') = ListingOf(auction)
       /\ ~auction.is_active =>
             (~auction'.is_active /\ auction'.bids = auction.bids)]_vars

\* the listing was closed while it had a bid, and a later bid above the price was refused
C27_Witness ==
    /\ ~auction.is_active
    /\ Len(auction.bids) = 1
    /\ auction.req[1].pc = "done"
    /\ auction.req[1].handler = "place_bid"
    /\ auction.req[1].method = "POST"
    /\ auction.req[1].amount > auction.bids[1].amount
    /\ ~auction.req[1].is_active
    /\ auction.req[1].response = "errors"

(***************************************************************************)
(* The network application: edits of the two posts, one request at a time. *)
(***************************************************************************)
InitNetwork ==
    /\ InitF1
    /\ upTotal = 0
    /\ season = DefaultSeason
    /\ auction = AuctionIdle
    /\ network = NetworkIdle
    /\ wiki = WikiIdle

NextNetwork ==
    \E user \in NetworkMembers, method \in Methods, post_id \in AskedIds :
        \E body \in (IF method = "POST" THEN Bodies ELSE {NoBody}) :
            edit_post_api(user, method, post_id, body)

SpecNetwork == InitNetwork /\ [][NextNetwork]_vars

\* the requester wrote the post and the stripped content may be stored
MayEdit(user, post_id, body) ==
    /\ post_id \in PostIds
    /\ network.posts[post_id].author = user
    /\ body.kind \in {"form", "object"}
    /\ Strip(OrEmpty(body.content)) # <<>>
    /\ Len(Strip(OrEmpty(body.content))) <= MaxContent

\* what the claim says of one edit request
EditRule(user, method, post_id, body) ==
    LET content == Strip(OrEmpty(body.content))
        status == network'.last.status
        reached == Refused(user, method, post_id) = 0
    IN  /\ network'.posts # network.posts => MayEdit(user, post_id, body)
        /\ status = 200 =>
              /\ MayEdit(user, post_id, body)
              /\ network'.posts = [network.posts EXCEPT ![post_id].content = content]
        /\ status # 200 => network'.posts = network.posts
        /\ (user # Anonymous /\ ~MayEdit(user, post_id, body)) => status >= 400
        /\ (reached /\ network.posts[post_id].author # user) => status = 403
        /\ (reached /\ network.posts[post_id].author = user /\ body.kind = "invalid")
              => status = 400
        /\ (reached /\ network.posts[post_id].author = user
                /\ body.kind \in {"form", "object"}
                /\ (content = <<>> \/ Len(content) > MaxContent)) => status = 400
        /\ (reached /\ MayEdit(user, post_id, body)) => status = 200

\* C28: edit_post_api changes a post's content only when the requester is the
\* post's author and the stripped new content is not empty and no longer than
\* the limit, and then it stores the stripped content; in every other case the
\* post is left as it was and a signed-in requester is answered with an error:
\* 403 when they are not the author, 400 for invalid JSON and for empty or
\* over-long content.
C28_EditOnlyByAuthor ==
    [][network'.last.handler = "edit_post_api" =>
          EditRule(network'.last.user, network'.last.method, network'.last.post_id,
                   network'.last.body)]_vars

\* ann has stored new content in her post, then bob's request on it was refused
\* with 403 and her content stayed
C28_Witness ==
    /\ network.last.handler = "edit_post_api"
    /\ network.last.user = "bob"
    /\ network.last.post_id = 1
    /\ network.last.body = [kind |-> "object", content |-> <<"a">>]
    /\ network.last.status = 403
    /\ network.posts[1].content = <<"a", "a">>

(***************************************************************************)
(* The network application: like toggles, one request at a time.           *)
(***************************************************************************)
NextLikes ==
    \E user \in NetworkMembers, method \in Methods, post_id \in AskedIds :
        toggle_like_api(user, method, post_id)

SpecLikes == InitNetwork /\ [][NextLikes]_vars

\* no two Like rows of the same user for the same post
OneLikeEach ==
    \A i, j \in 1..Len(network.likes) : network.likes[i] = network.likes[j] => i = j

\* what the claim says of one toggle that reached the handler's body
ToggleRule ==
    LET user == network'.last.user
        post_id == network'.last.post_id
        was == network.last
    IN  Refused(user, network'.last.method, post_id) = 0 =>
          /\ network'.last.status = 200
          /\ (<<user, post_id>> \in LikePairs(network'.likes))
                = (<<user, post_id>> \notin LikePairs(network.likes))
          /\ LikePairs(network'.likes) \ {<<user, post_id>>}
                = LikePairs(network.likes) \ {<<user, post_id>>}
          /\ network'.last.liked = (<<user, post_id>> \in LikePairs(network'.likes))
          /\ network'.last.likes = LikesCount(network'.likes, post_id)
          /\ (was.handler = "toggle_like_api" /\ was.status = 200
                /\ was.user = user /\ was.post_id = post_id)
                => LikePairs(network'.likes) = network.before

\* C29: with toggle_like_api requests processed one at a time there is never
\* more than one Like row of a user for a post; a request that reaches the
\* handler flips that user's like of the post and no other, answers liked as
\* the like now stands and likes as the number of the post's rows after the
\* toggle, and a second toggle by the same user right after the first one
\* brings back the likes there were before the first.
C29_ToggleFlips ==
    /\ []OneLikeEach
    /\ [][network'.last.handler = "toggle_like_api" => ToggleRule]_vars

\* bob liked post 1, which ann likes too, and took his like back: one row is left
C29_Witness ==
    /\ network.last.handler = "toggle_like_api"
    /\ network.last.user = "bob"
    /\ network.last.post_id = 1
    /\ network.last.status = 200
    /\ ~network.last.liked
    /\ network.last.likes = 1
    /\ network.before = {<<"ann", 1>>, <<"bob", 1>>}
    /\ LikePairs(network.likes) = {<<"ann", 1>>}

(***************************************************************************)
(* The wiki: requests to new_page and edit_page, one at a time.            *)
(***************************************************************************)
InitWiki ==
    /\ InitF1
    /\ upTotal = 0
    /\ season = DefaultSeason
    /\ auction = AuctionIdle
    /\ network = NetworkIdle
    /\ wiki = WikiIdle

NextWiki ==
    \E method \in Methods, title \in WikiTitles, content \in WikiContents :
        \/ new_page(method, title, content)
        \/ title # <<>> /\ edit_page(method, title, content)

SpecWiki == InitWiki /\ [][NextWiki]_vars

\* every entry there was is still there with its content
EntriesKept ==
    \A e \in DOMAIN wiki.entries :
        e \in DOMAIN wiki'.entries /\ wiki'.entries[e] = wiki.entries[e]

\* what the claim says of a request to new_page
NewPageRule ==
    LET r == wiki'.last
        taken == \E e \in DOMAIN wiki.entries : ToLower(Strip(r.title)) = ToLower(e)
    IN  /\ EntriesKept
        /\ taken =>
              /\ wiki'.entries = wiki.entries
              /\ r.method = "POST" => r.response = "form" /\ r.errors # "none"
              /\ (r.method = "POST" /\ Strip(r.title) # <<>> /\ Strip(r.content) # <<>>)
                    => r.errors = "exists"
        /\ wiki'.entries # wiki.entries =>
              /\ ~taken
              /\ wiki'.entries = save_entry(wiki.entries, Strip(r.title), Strip(r.content))

\* what the claim says of a request to edit_page
EditPageRule ==
    LET r == wiki'.last
    IN  /\ DOMAIN wiki'.entries = DOMAIN wiki.entries
        /\ r.title \notin DOMAIN wiki.entries =>
              r.response = "Http404" /\ wiki'.entries = wiki.entries
        /\ wiki'.entries # wiki.entries =>
              /\ r.title \in DOMAIN wiki.entries
              /\ wiki'.entries = [wiki.entries EXCEPT ![r.title] = Strip(r.content)]

\* C30: new_page never overwrites an entry: a request whose title equals an
\* existing entry's title but for the case of its letters is answered with the
\* form and an error and no entry is saved or changed, and every entry there
\* was keeps its content; edit_page saves content only under a title that
\* exists already, and for any other title it raises not-found and saves nothing.
C30_NoOverwrite ==
    [][/\ wiki'.last.handler = "new_page" => NewPageRule
       /\ wiki'.last.handler = "edit_page" => EditPageRule]_vars

\* with the entry P of content x, a new page p of content y was refused
C30_Witness ==
    /\ wiki.last.handler = "new_page"
    /\ wiki.last.method = "POST"
    /\ wiki.last.title = <<" ", "p">>
    /\ wiki.last.content = <<"y">>
    /\ wiki.last.errors = "exists"
    /\ wiki.entries = [t \in {<<"P">>} |-> <<"x">>]

\* an address that names no entry was refused with not-found after an edit of P
C30_WitnessEdit ==
    /\ wiki.last.handler = "edit_page"
    /\ wiki.last.method = "POST"
    /\ wiki.last.title = <<"p">>
    /\ wiki.last.response = "Http404"
    /\ wiki.entries = [t \in {<<"P">>} |-> <<"y">>]

====
